---- MODULE Spec2Model ----
(***************************************************************************)
(* The NovusX rules engine (src/rl/env.py, class NovusXEnv): a 5x5 board,  *)
(* two players, deploy / move / attack / rotate / end-turn actions coded   *)
(* as one integer index, turn economy driven by three control points, and  *)
(* win / draw detection.                                                   *)
(*                                                                         *)
(* Conventions of the translation                                          *)
(*  - Optional[T] is a sequence of length <= 1: None is << >> and a value  *)
(*    x is <<x>>.  A grid cell is Optional[Unit].                          *)
(*  - A position (row, col) is the pair <<row, col>>, rows and columns     *)
(*    0-indexed as in the source; pos[1] is the row, pos[2] the column.    *)
(*  - The environment object is the record built by Env from the           *)
(*    variables; the methods are operators from such a record to the       *)
(*    record after the call (and the values the method returns).           *)
(*  - Rewards are integers in thousandths (1.0 is 1000, -0.001 is -1).     *)
(*  - The md5 digest of the canonical state string is modelled by the      *)
(*    content of that string (the digest is taken to be collision free).   *)
(*  - get_valid_actions_mask is modelled by the set of indices whose       *)
(*    entry is 1.0.                                                        *)
(*  - step_count, max_steps and last_control_ownership are write-only      *)
(*    bookkeeping (read by get_game_result alone) and are not modelled.    *)
(*  - Init is the engine after NovusXEnv() and the first reset(): step()   *)
(*    raises before that.                                                  *)
(*  - The variables grid .. training_mode are the fields of one instance   *)
(*    e; twin holds the fields of the instance e.clone() returned.  The    *)
(*    mutable objects of an instance are its GameState ("state": grid,     *)
(*    units, player records and the scalars of the state) and its table    *)
(*    of state counts ("state_hash_counts"); shared is the set of those    *)
(*    that are one object in both instances.  step() mutates them in       *)
(*    place, so a call on one instance shows in the other for every        *)
(*    object in shared; reset() binds new objects.                         *)
(***************************************************************************)
EXTENDS Integers, Sequences, FiniteSets, TLC

VARIABLES
    grid,                          \* GameState.grid[row][col] : Optional[Unit]
    current_player,                \* GameState.current_player
    turn_number,                   \* GameState.turn_number
    players,                       \* GameState.players[0..1]
    free_deployments_remaining,    \* GameState.free_deployments_remaining
    has_acted_this_turn,           \* GameState.has_acted_this_turn
    _unit_counter,                 \* NovusXEnv._unit_counter
    state_hash_counts,             \* NovusXEnv.state_hash_counts (defaultdict(int))
    turns_since_last_capture,      \* NovusXEnv.turns_since_last_capture
    turns_since_last_unit_death,   \* NovusXEnv.turns_since_last_unit_death
    game_outcome,                  \* NovusXEnv.game_outcome
    draw_reason,                   \* NovusXEnv.draw_reason
    training_mode,                 \* NovusXEnv.training_mode
    result,                        \* what the last call of reset()/step() returned
    twin,                          \* the instance clone() returned : Optional[NovusXEnv]
    shared,                        \* the objects both instances refer to
    multi                          \* the MultiAgentEnv instance

vars == <<grid, current_player, turn_number, players, free_deployments_remaining,
          has_acted_this_turn, _unit_counter, state_hash_counts,
          turns_since_last_capture, turns_since_last_unit_death, game_outcome,
          draw_reason, training_mode, result, twin, shared, multi>>

\* The game state proper: everything of the engine but the returned values.
gameVars == <<grid, current_player, turn_number, players, free_deployments_remaining,
              has_acted_this_turn, _unit_counter, state_hash_counts,
              turns_since_last_capture, turns_since_last_unit_death, game_outcome,
              draw_reason, training_mode>>

-----------------------------------------------------------------------------
(* Python values *)

None == << >>

Some(x) == <<x>>

\* d.get(k, default)
DictGet(d, k, default) == IF k \in DOMAIN d THEN d[k] ELSE default

\* d[k] = v
DictSet(d, k, v) == [x \in (DOMAIN d) \cup {k} |-> IF x = k THEN v ELSE d[x]]

abs(x) == IF x < 0 THEN -x ELSE x

-----------------------------------------------------------------------------
(* Enumerations and tables *)

EMPTY == 0
SWORDSMAN == 1
SHIELDMAN == 2
AXEMAN == 3
CAVALRY == 4
ARCHER == 5
SPEARMAN == 6

UnitType == {EMPTY, SWORDSMAN, SHIELDMAN, AXEMAN, CAVALRY, ARCHER, SPEARMAN}

ActionType == {"DEPLOY", "MOVE", "ATTACK", "ROTATE", "END_TURN"}

GameOutcome == {"IN_PROGRESS", "PLAYER_0_WIN", "PLAYER_1_WIN", "DRAW"}

DrawReason == {"NONE", "MAX_TURNS", "REPEATED_STATE", "NO_PROGRESS"}

UNIT_STATS ==
    [t \in {SWORDSMAN, SHIELDMAN, AXEMAN, CAVALRY, ARCHER, SPEARMAN} |->
        [move_range   |-> IF t = CAVALRY THEN 2 ELSE 1,
         attack_range |-> IF t \in {ARCHER, SPEARMAN} THEN 2 ELSE 1]]

MELEE_BEATS ==
    (SWORDSMAN :> {ARCHER, CAVALRY, AXEMAN, SWORDSMAN, SPEARMAN}) @@
    (SHIELDMAN :> {ARCHER}) @@
    (AXEMAN    :> {ARCHER, SHIELDMAN, CAVALRY, AXEMAN, SPEARMAN}) @@
    (CAVALRY   :> {ARCHER, CAVALRY, SPEARMAN}) @@
    (ARCHER    :> {ARCHER}) @@
    (SPEARMAN  :> {ARCHER, SHIELDMAN, CAVALRY, SPEARMAN})

RANGED_BEATS ==
    (ARCHER   :> {ARCHER, CAVALRY, AXEMAN, SWORDSMAN, SPEARMAN}) @@
    (SPEARMAN :> {ARCHER, CAVALRY, SPEARMAN})

CONTROL_POINTS == << <<2, 0>>, <<2, 2>>, <<2, 4>> >>

OUTSIDE_POINTS == << <<2, 0>>, <<2, 4>> >>

GRID_SIZE == 5

Rows == 0 .. (GRID_SIZE - 1)

Cols == 0 .. (GRID_SIZE - 1)

Positions == Rows \X Cols

Players == {0, 1}

DEPLOY_ACTIONS == 6 * 5 * 5
MOVE_ACTIONS == 25 * 25
ATTACK_ACTIONS == 25 * 25
ROTATE_ACTIONS == 25 * 25
END_TURN_ACTIONS == 1

ACTION_SPACE_SIZE ==
    DEPLOY_ACTIONS + MOVE_ACTIONS + ATTACK_ACTIONS + ROTATE_ACTIONS + END_TURN_ACTIONS

MAX_TURN_LIMIT == 1000
REPEATED_STATE_LIMIT == 10
NO_PROGRESS_TURN_LIMIT == 100
MAX_DEPLOYMENTS_PER_TYPE == 3

\* self.rewards with the default configuration, in thousandths
rewards ==
    [win |-> 1000, lose |-> -1000,
     draw_no_progress |-> 0, draw_repetition |-> -200, draw_max_turns |-> -300,
     draw_default |-> 0,
     turn_penalty |-> -1,
     capture_control_point |-> 300, lose_control_point |-> -300,
     control_point_advantage |-> 20,
     defeat_enemy_unit |-> 70, lose_own_unit |-> -70,
     invalid_action_penalty |-> -500]

-----------------------------------------------------------------------------
(* The environment as one record *)

Env ==
    [grid |-> grid, current_player |-> current_player, turn_number |-> turn_number,
     players |-> players, free_deployments_remaining |-> free_deployments_remaining,
     has_acted_this_turn |-> has_acted_this_turn, _unit_counter |-> _unit_counter,
     state_hash_counts |-> state_hash_counts,
     turns_since_last_capture |-> turns_since_last_capture,
     turns_since_last_unit_death |-> turns_since_last_unit_death,
     game_outcome |-> game_outcome, draw_reason |-> draw_reason,
     training_mode |-> training_mode]

\* self.state.grid[pos[0]][pos[1]]
At(e, pos) == e.grid[pos[1]][pos[2]]

\* self.state.grid[pos[0]][pos[1]] = cell
Put(g, pos, cell) == [g EXCEPT ![pos[1]][pos[2]] = cell]

-----------------------------------------------------------------------------
(* Queries *)

_get_control_owner(e, pos) ==
    LET unit == At(e, pos)
    IN  IF unit # None THEN Some(unit[1].owner_id) ELSE None

_get_distance(a, b) ==
    LET dx == abs(a[2] - b[2])
        dy == abs(a[1] - b[1])
    IN  IF dx = 1 /\ dy = 1 THEN 2 ELSE dx + dy

_controls_position(e, player_id, pos) ==
    LET unit == At(e, pos)
    IN  unit # None /\ unit[1].owner_id = player_id

_count_control_points(e, player_id) ==
    Cardinality({i \in DOMAIN CONTROL_POINTS :
                    _controls_position(e, player_id, CONTROL_POINTS[i])})

_count_units(e, player_id) ==
    Cardinality({pos \in Positions :
                    At(e, pos) # None /\ At(e, pos)[1].owner_id = player_id})

\* _check_winner with the elimination test from turn 10 on (>= for >)
_check_winner_from_turn_10(e) ==
    IF _count_control_points(e, 0) = 3 THEN Some(0)
    ELSE IF _count_control_points(e, 1) = 3 THEN Some(1)
    ELSE IF e.turn_number >= 10
              /\ _count_units(e, 1) = 0 /\ _count_units(e, 0) > 0 THEN Some(0)
    ELSE IF e.turn_number >= 10
              /\ _count_units(e, 0) = 0 /\ _count_units(e, 1) > 0 THEN Some(1)
    ELSE None

_check_winner(e) ==
    IF _count_control_points(e, 0) = 3 THEN Some(0)
    ELSE IF _count_control_points(e, 1) = 3 THEN Some(1)
    ELSE IF e.turn_number > 10
              /\ _count_units(e, 1) = 0 /\ _count_units(e, 0) > 0 THEN Some(0)
    ELSE IF e.turn_number > 10
              /\ _count_units(e, 0) = 0 /\ _count_units(e, 1) > 0 THEN Some(1)
    ELSE None

-----------------------------------------------------------------------------
(* Action codec *)

_encode_deploy(unit_type, col) == (unit_type - 1) * 25 + col

_encode_move(source, target) ==
    LET source_idx == source[1] * 5 + source[2]
        target_idx == target[1] * 5 + target[2]
    IN  DEPLOY_ACTIONS + source_idx * 25 + target_idx

_encode_attack(source, target) ==
    LET source_idx == source[1] * 5 + source[2]
        target_idx == target[1] * 5 + target[2]
    IN  DEPLOY_ACTIONS + MOVE_ACTIONS + source_idx * 25 + target_idx

\* _encode_rotate numbering the cells column by column: col * 5 + row
_encode_rotate_by_column(source, target) ==
    LET source_idx == source[2] * 5 + source[1]
        target_idx == target[2] * 5 + target[1]
    IN  DEPLOY_ACTIONS + MOVE_ACTIONS + ATTACK_ACTIONS + source_idx * 25 + target_idx

_encode_rotate(source, target) ==
    LET source_idx == source[1] * 5 + source[2]
        target_idx == target[1] * 5 + target[2]
    IN  DEPLOY_ACTIONS + MOVE_ACTIONS + ATTACK_ACTIONS + source_idx * 25 + target_idx

\* divmod(action // 25, 5) and divmod(action % 25, 5)
SourceTarget(action) ==
    [source |-> <<(action \div 25) \div 5, (action \div 25) % 5>>,
     target |-> <<(action % 25) \div 5, (action % 25) % 5>>]

\* UnitType(value) finds a member: the values of the enum are EMPTY..SPEARMAN
IsUnitType(value) == value \in EMPTY..SPEARMAN

\* // and % round to the floor, as \div and % do; a deploy index whose
\* action // 25 + 1 is no value of UnitType raises ValueError, which is here
\* the action_type "ValueError".
_parse_action(action) ==
    IF action < DEPLOY_ACTIONS
    THEN IF IsUnitType((action \div 25) + 1)
         THEN [action_type |-> "DEPLOY",
               params |-> [unit_type |-> (action \div 25) + 1, col |-> action % 5]]
         ELSE [action_type |-> "ValueError", params |-> [none |-> TRUE]]
    ELSE IF action - DEPLOY_ACTIONS < MOVE_ACTIONS
    THEN [action_type |-> "MOVE", params |-> SourceTarget(action - DEPLOY_ACTIONS)]
    ELSE IF action - DEPLOY_ACTIONS - MOVE_ACTIONS < ATTACK_ACTIONS
    THEN [action_type |-> "ATTACK",
          params |-> SourceTarget(action - DEPLOY_ACTIONS - MOVE_ACTIONS)]
    ELSE IF action - DEPLOY_ACTIONS - MOVE_ACTIONS - ATTACK_ACTIONS < ROTATE_ACTIONS
    THEN [action_type |-> "ROTATE",
          params |-> SourceTarget(action - DEPLOY_ACTIONS - MOVE_ACTIONS
                                         - ATTACK_ACTIONS)]
    ELSE [action_type |-> "END_TURN", params |-> [none |-> TRUE]]

\* The index the encoders give for a decoded action (END_TURN has no encoder:
\* its index is the last of the action space, which the mask sets).
EncodeAction(parsed) ==
    IF parsed.action_type = "DEPLOY"
    THEN _encode_deploy(parsed.params.unit_type, parsed.params.col)
    ELSE IF parsed.action_type = "MOVE"
    THEN _encode_move(parsed.params.source, parsed.params.target)
    ELSE IF parsed.action_type = "ATTACK"
    THEN _encode_attack(parsed.params.source, parsed.params.target)
    ELSE IF parsed.action_type = "ROTATE"
    THEN _encode_rotate(parsed.params.source, parsed.params.target)
    ELSE ACTION_SPACE_SIZE - 1

-----------------------------------------------------------------------------
(* Legality checks *)

\* _can_move that lets no unit pass over an occupied cell
_can_move_clear_path(e, unit, source, target) ==
    IF source = target THEN FALSE
    ELSE IF At(e, target) # None THEN FALSE
    ELSE IF (source[1] = target[1] \/ source[2] = target[2])
              /\ abs(source[1] - target[1]) + abs(source[2] - target[2]) = 2
              /\ At(e, <<(source[1] + target[1]) \div 2,
                         (source[2] + target[2]) \div 2>>) # None THEN FALSE
    ELSE _get_distance(source, target) <= UNIT_STATS[unit.unit_type].move_range

_can_move(e, unit, source, target) ==
    IF source = target THEN FALSE
    ELSE IF At(e, target) # None THEN FALSE
    ELSE _get_distance(source, target) <= UNIT_STATS[unit.unit_type].move_range

\* _has_line_of_sight that never looks at the cells between
_has_line_of_sight_always(e, source, target) == TRUE

\* range(a + step, b, step) for step = 1 if b > a else -1
Between(a, b) == {x \in Rows : (a < x /\ x < b) \/ (b < x /\ x < a)}

_has_line_of_sight(e, source, target) ==
    LET dx  == target[2] - source[2]
        dy  == target[1] - source[1]
        adx == abs(dx)
        ady == abs(dy)
    IN  IF adx = 0 /\ ady > 1
        THEN \A r \in Between(source[1], target[1]) : At(e, <<r, source[2]>>) = None
        ELSE IF ady = 0 /\ adx > 1
        THEN \A c \in Between(source[2], target[2]) : At(e, <<source[1], c>>) = None
        ELSE TRUE

_can_attack(e, attacker, source, target, defender) ==
    LET stats          == UNIT_STATS[attacker.unit_type]
        dist           == _get_distance(source, target)
        manhattan_dist == abs(source[1] - target[1]) + abs(source[2] - target[2])
        is_melee       == manhattan_dist = 1
        attacker_wins  ==
            defender.unit_type \in DictGet(MELEE_BEATS, attacker.unit_type, {})
        defender_wins  ==
            attacker.unit_type \in DictGet(MELEE_BEATS, defender.unit_type, {})
    IN  IF dist > stats.attack_range THEN FALSE
        ELSE IF ~is_melee /\ attacker.unit_type \in {ARCHER, SPEARMAN}
        THEN IF defender.unit_type = SHIELDMAN THEN FALSE
             ELSE IF defender.unit_type
                        \notin DictGet(RANGED_BEATS, attacker.unit_type, {})
             THEN FALSE
             ELSE _has_line_of_sight(e, source, target)
        ELSE IF ~attacker_wins /\ ~defender_wins THEN FALSE
        ELSE TRUE

\* _can_rotate without the test that the two units differ in type
_can_rotate_any_type(e, unit, source, target, player_id) ==
    LET target_unit    == At(e, target)
        dx             == abs(target[2] - source[2])
        dy             == abs(target[1] - source[1])
        is_diagonal    == dx = 1 /\ dy = 1
        manhattan_dist == dx + dy
        mid            == <<(source[1] + target[1]) \div 2,
                            (source[2] + target[2]) \div 2>>
    IN  IF target_unit = None \/ target_unit[1].owner_id # player_id THEN FALSE
        ELSE IF manhattan_dist = 1 THEN TRUE
        ELSE IF is_diagonal /\ unit.unit_type = CAVALRY THEN TRUE
        ELSE IF manhattan_dist = 2 /\ (dx = 0 \/ dy = 0)
                  /\ unit.unit_type = CAVALRY /\ At(e, mid) = None THEN TRUE
        ELSE FALSE

_can_rotate(e, unit, source, target, player_id) ==
    LET target_unit    == At(e, target)
        dx             == abs(target[2] - source[2])
        dy             == abs(target[1] - source[1])
        is_diagonal    == dx = 1 /\ dy = 1
        manhattan_dist == dx + dy
        mid            == <<(source[1] + target[1]) \div 2,
                            (source[2] + target[2]) \div 2>>
    IN  IF target_unit = None \/ target_unit[1].owner_id # player_id THEN FALSE
        ELSE IF unit.unit_type = target_unit[1].unit_type THEN FALSE
        ELSE IF manhattan_dist = 1 THEN TRUE
        ELSE IF is_diagonal /\ unit.unit_type = CAVALRY THEN TRUE
        ELSE IF manhattan_dist = 2 /\ (dx = 0 \/ dy = 0)
                  /\ unit.unit_type = CAVALRY /\ At(e, mid) = None THEN TRUE
        ELSE FALSE

-----------------------------------------------------------------------------
(* Turn transition *)

\* 1 + middle_bonus: the actions the incoming player gets
TurnActions(e, new_player) ==
    1 + (IF _controls_position(e, new_player, CONTROL_POINTS[2]) THEN 1 ELSE 0)

\* _end_turn giving the deployment for one outer control point already
_end_turn_bonus_for_one_side(e) ==
    LET new_player   == 1 - e.current_player
        side_control == Cardinality({i \in DOMAIN OUTSIDE_POINTS :
                            _controls_position(e, new_player, OUTSIDE_POINTS[i])})
        both_sides   == side_control >= 1
    IN  [e EXCEPT
            !.turns_since_last_capture = @ + 1,
            !.turns_since_last_unit_death = @ + 1,
            !.players[new_player].actions_remaining = TurnActions(e, new_player),
            !.players[new_player].deployments_remaining =
                IF both_sides THEN @ + 1 ELSE @,
            !.free_deployments_remaining = IF side_control > 0 THEN 1 ELSE 0,
            !.grid = [r \in Rows |-> [c \in Cols |->
                        IF e.grid[r][c] = None THEN None
                        ELSE Some([e.grid[r][c][1] EXCEPT !.acted_this_turn = FALSE])]],
            !.current_player = new_player,
            !.turn_number = @ + 1,
            !.has_acted_this_turn = FALSE]

\* _end_turn that leaves the incoming player the actions it had
_end_turn_keeping_actions(e) ==
    LET new_player   == 1 - e.current_player
        side_control == Cardinality({i \in DOMAIN OUTSIDE_POINTS :
                            _controls_position(e, new_player, OUTSIDE_POINTS[i])})
        both_sides   == side_control = 2
    IN  [e EXCEPT
            !.turns_since_last_capture = @ + 1,
            !.turns_since_last_unit_death = @ + 1,
            !.players[new_player].deployments_remaining =
                IF both_sides THEN @ + 1 ELSE @,
            !.free_deployments_remaining = IF side_control > 0 THEN 1 ELSE 0,
            !.grid = [r \in Rows |-> [c \in Cols |->
                        IF e.grid[r][c] = None THEN None
                        ELSE Some([e.grid[r][c][1] EXCEPT !.acted_this_turn = FALSE])]],
            !.current_player = new_player,
            !.turn_number = @ + 1,
            !.has_acted_this_turn = FALSE]

_end_turn(e) ==
    LET new_player   == 1 - e.current_player
        side_control == Cardinality({i \in DOMAIN OUTSIDE_POINTS :
                            _controls_position(e, new_player, OUTSIDE_POINTS[i])})
        both_sides   == side_control = 2
    IN  [e EXCEPT
            !.turns_since_last_capture = @ + 1,
            !.turns_since_last_unit_death = @ + 1,
            !.players[new_player].actions_remaining = TurnActions(e, new_player),
            !.players[new_player].deployments_remaining =
                IF both_sides THEN @ + 1 ELSE @,
            !.free_deployments_remaining = IF side_control > 0 THEN 1 ELSE 0,
            !.grid = [r \in Rows |-> [c \in Cols |->
                        IF e.grid[r][c] = None THEN None
                        ELSE Some([e.grid[r][c][1] EXCEPT !.acted_this_turn = FALSE])]],
            !.current_player = new_player,
            !.turn_number = @ + 1,
            !.has_acted_this_turn = FALSE]

\* SpendAction ending the turn only once the count is below 0
SpendActionLate(e, player_id) ==
    LET e1 == [e EXCEPT !.players[player_id].actions_remaining = @ - 1,
                        !.has_acted_this_turn = TRUE]
    IN  IF e1.players[player_id].actions_remaining < 0 THEN _end_turn(e1) ELSE e1

\* the tail of every _apply_*: actions_remaining -= 1, has_acted_this_turn = True,
\* and the automatic end of the turn
SpendAction(e, player_id) ==
    LET e1 == [e EXCEPT !.players[player_id].actions_remaining = @ - 1,
                        !.has_acted_this_turn = TRUE]
    IN  IF e1.players[player_id].actions_remaining <= 0 THEN _end_turn(e1) ELSE e1

Fail(e, msg) == [valid |-> FALSE, error |-> msg, env |-> e]

Done(e) == [valid |-> TRUE, error |-> "", env |-> e]

-----------------------------------------------------------------------------
(* Action application: each operator yields (valid, error) and the environment
   as the call leaves it *)

\* DeployLimitReached off by one: type_count > MAX_DEPLOYMENTS_PER_TYPE
DeployLimitOffByOne(player, unit_type) ==
    DictGet(player.deployment_counts, unit_type, 0) > MAX_DEPLOYMENTS_PER_TYPE

\* type_count >= self.MAX_DEPLOYMENTS_PER_TYPE
DeployLimitReached(player, unit_type) ==
    DictGet(player.deployment_counts, unit_type, 0) >= MAX_DEPLOYMENTS_PER_TYPE

\* _apply_deploy drawing the unit's number before it looks at the tile
_apply_deploy_counter_first(e, params, player_id) ==
    LET player    == e.players[player_id]
        unit_type == params.unit_type
        col       == params.col
        row       == IF player_id = 0 THEN 0 ELSE 4
        counter   == e._unit_counter + 1
        counted   == [e EXCEPT !._unit_counter = counter]
        unit      == [id              |-> <<player_id, unit_type, counter>>,
                      owner_id        |-> player_id,
                      unit_type       |-> unit_type,
                      position        |-> <<row, col>>,
                      acted_this_turn |-> TRUE]
        e1        == [counted EXCEPT
                        !.grid = Put(@, <<row, col>>, Some(unit)),
                        !.players[player_id].deployments_remaining = @ - 1,
                        !.players[player_id].deployment_counts =
                            DictSet(@, unit_type, DictGet(@, unit_type, 0) + 1)]
    IN  IF player.deployments_remaining <= 0 THEN Fail(e, "No deployments remaining")
        ELSE IF e.grid[row][col] # None THEN Fail(counted, "Tile occupied")
        ELSE IF DictGet(player.deployment_counts, unit_type, 0)
                    >= MAX_DEPLOYMENTS_PER_TYPE
        THEN Fail(counted, "Max 3 of type already deployed")
        ELSE Done(SpendAction(e1, player_id))

\* _apply_deploy without the test of deployments_remaining
_apply_deploy_unlimited(e, params, player_id) ==
    LET player    == e.players[player_id]
        unit_type == params.unit_type
        col       == params.col
        row       == IF player_id = 0 THEN 0 ELSE 4
        counter   == e._unit_counter + 1
        unit      == [id              |-> <<player_id, unit_type, counter>>,
                      owner_id        |-> player_id,
                      unit_type       |-> unit_type,
                      position        |-> <<row, col>>,
                      acted_this_turn |-> TRUE]
        e1        == [e EXCEPT
                        !._unit_counter = counter,
                        !.grid = Put(@, <<row, col>>, Some(unit)),
                        !.players[player_id].deployments_remaining = @ - 1,
                        !.players[player_id].deployment_counts =
                            DictSet(@, unit_type, DictGet(@, unit_type, 0) + 1)]
    IN  IF e.grid[row][col] # None THEN Fail(e, "Tile occupied")
        ELSE IF DeployLimitReached(player, unit_type)
        THEN Fail(e, "Max 3 of type already deployed")
        ELSE Done(SpendAction(e1, player_id))

\* _apply_deploy that does not take the deployment from deployments_remaining
_apply_deploy_free(e, params, player_id) ==
    LET player    == e.players[player_id]
        unit_type == params.unit_type
        col       == params.col
        row       == IF player_id = 0 THEN 0 ELSE 4
        counter   == e._unit_counter + 1
        unit      == [id              |-> <<player_id, unit_type, counter>>,
                      owner_id        |-> player_id,
                      unit_type       |-> unit_type,
                      position        |-> <<row, col>>,
                      acted_this_turn |-> TRUE]
        e1        == [e EXCEPT
                        !._unit_counter = counter,
                        !.grid = Put(@, <<row, col>>, Some(unit)),
                        !.players[player_id].deployment_counts =
                            DictSet(@, unit_type, DictGet(@, unit_type, 0) + 1)]
    IN  IF player.deployments_remaining <= 0 THEN Fail(e, "No deployments remaining")
        ELSE IF e.grid[row][col] # None THEN Fail(e, "Tile occupied")
        ELSE IF DeployLimitReached(player, unit_type)
        THEN Fail(e, "Max 3 of type already deployed")
        ELSE Done(SpendAction(e1, player_id))

_apply_deploy(e, params, player_id) ==
    LET player    == e.players[player_id]
        unit_type == params.unit_type
        col       == params.col
        row       == IF player_id = 0 THEN 0 ELSE 4
        counter   == e._unit_counter + 1
        unit      == [id              |-> <<player_id, unit_type, counter>>,
                      owner_id        |-> player_id,
                      unit_type       |-> unit_type,
                      position        |-> <<row, col>>,
                      acted_this_turn |-> TRUE]
        e1        == [e EXCEPT
                        !._unit_counter = counter,
                        !.grid = Put(@, <<row, col>>, Some(unit)),
                        !.players[player_id].deployments_remaining = @ - 1,
                        !.players[player_id].deployment_counts =
                            DictSet(@, unit_type, DictGet(@, unit_type, 0) + 1)]
    IN  IF player.deployments_remaining <= 0 THEN Fail(e, "No deployments remaining")
        ELSE IF e.grid[row][col] # None THEN Fail(e, "Tile occupied")
        ELSE IF DeployLimitReached(player, unit_type)
        THEN Fail(e, "Max 3 of type already deployed")
        ELSE Done(SpendAction(e1, player_id))

\* _apply_move that does not set acted_this_turn of the unit it moves
_apply_move_unmarked(e, params, player_id) ==
    LET source == params.source
        target == params.target
        unit   == At(e, source)
        moved  == [unit[1] EXCEPT !.position = target]
        e1     == [e EXCEPT !.grid = Put(Put(@, source, None), target, Some(moved))]
    IN  IF unit = None \/ unit[1].owner_id # player_id
        THEN Fail(e, "No friendly unit at source")
        ELSE IF unit[1].acted_this_turn THEN Fail(e, "Unit already acted")
        ELSE IF ~_can_move(e, unit[1], source, target) THEN Fail(e, "Invalid move")
        ELSE Done(SpendAction(e1, player_id))

_apply_move(e, params, player_id) ==
    LET source == params.source
        target == params.target
        unit   == At(e, source)
        moved  == [unit[1] EXCEPT !.position = target, !.acted_this_turn = TRUE]
        e1     == [e EXCEPT !.grid = Put(Put(@, source, None), target, Some(moved))]
    IN  IF unit = None \/ unit[1].owner_id # player_id
        THEN Fail(e, "No friendly unit at source")
        ELSE IF unit[1].acted_this_turn THEN Fail(e, "Unit already acted")
        ELSE IF ~_can_move(e, unit[1], source, target) THEN Fail(e, "Invalid move")
        ELSE Done(SpendAction(e1, player_id))

\* (remove_attacker, remove_defender) of a legal attack
ResolveCombat(attacker, defender, source, target) ==
    LET dist          == abs(source[1] - target[1]) + abs(source[2] - target[2])
        is_melee      == dist = 1
        attacker_wins ==
            defender.unit_type \in DictGet(MELEE_BEATS, attacker.unit_type, {})
        defender_wins ==
            attacker.unit_type \in DictGet(MELEE_BEATS, defender.unit_type, {})
    IN  IF ~is_melee /\ attacker.unit_type \in {ARCHER, SPEARMAN}
        THEN [remove_attacker |-> FALSE,
              remove_defender |->
                 defender.unit_type \in DictGet(RANGED_BEATS, attacker.unit_type, {})]
        ELSE IF attacker_wins /\ defender_wins
        THEN [remove_attacker |-> TRUE, remove_defender |-> TRUE]
        ELSE IF attacker_wins
        THEN [remove_attacker |-> FALSE, remove_defender |-> TRUE]
        ELSE IF defender_wins
        THEN [remove_attacker |-> TRUE, remove_defender |-> FALSE]
        ELSE [remove_attacker |-> FALSE, remove_defender |-> FALSE]

_apply_attack(e, params, player_id) ==
    LET source   == params.source
        target   == params.target
        attacker == At(e, source)
        defender == At(e, target)
        combat   == ResolveCombat(attacker[1], defender[1], source, target)
        g1       == IF combat.remove_attacker
                    THEN Put(e.grid, source, None)
                    ELSE Put(e.grid, source,
                             Some([attacker[1] EXCEPT !.acted_this_turn = TRUE]))
        g2       == IF combat.remove_defender THEN Put(g1, target, None) ELSE g1
        e1       == [e EXCEPT !.grid = g2]
    IN  IF attacker = None \/ attacker[1].owner_id # player_id
        THEN Fail(e, "No friendly unit at source")
        ELSE IF attacker[1].acted_this_turn THEN Fail(e, "Unit already acted")
        ELSE IF defender = None \/ defender[1].owner_id = player_id
        THEN Fail(e, "No enemy unit at target")
        ELSE IF ~_can_attack(e, attacker[1], source, target, defender[1])
        THEN Fail(e, "Invalid attack")
        ELSE Done(SpendAction(e1, player_id))

\* _apply_rotate marking both units as having acted
_apply_rotate_both_acted(e, params, player_id) ==
    LET source         == params.source
        target         == params.target
        unit           == At(e, source)
        target_unit    == At(e, target)
        dx             == abs(target[2] - source[2])
        dy             == abs(target[1] - source[1])
        is_diagonal    == dx = 1 /\ dy = 1
        manhattan_dist == dx + dy
        mid            == <<(source[1] + target[1]) \div 2,
                            (source[2] + target[2]) \div 2>>
        swapped_in     == [target_unit[1] EXCEPT !.position = source,
                                                 !.acted_this_turn = TRUE]
        initiator      == [unit[1] EXCEPT !.position = target,
                                          !.acted_this_turn = TRUE]
        e1             == [e EXCEPT !.grid = Put(Put(@, source, Some(swapped_in)),
                                                 target, Some(initiator))]
    IN  IF unit = None \/ unit[1].owner_id # player_id
        THEN Fail(e, "No friendly unit at source")
        ELSE IF unit[1].acted_this_turn THEN Fail(e, "Unit already acted")
        ELSE IF target_unit = None \/ target_unit[1].owner_id # player_id
        THEN Fail(e, "No friendly unit at target")
        ELSE IF unit[1].unit_type = target_unit[1].unit_type
        THEN Fail(e, "Cannot swap units of same type")
        ELSE IF manhattan_dist # 1 /\ is_diagonal /\ unit[1].unit_type # CAVALRY
        THEN Fail(e, "Only cavalry can do diagonal swaps")
        ELSE IF manhattan_dist # 1 /\ ~is_diagonal
                  /\ manhattan_dist = 2 /\ (dx = 0 \/ dy = 0)
                  /\ unit[1].unit_type # CAVALRY
        THEN Fail(e, "Only cavalry can do long rotations")
        ELSE IF manhattan_dist # 1 /\ ~is_diagonal
                  /\ manhattan_dist = 2 /\ (dx = 0 \/ dy = 0)
                  /\ At(e, mid) # None
        THEN Fail(e, "Middle tile not empty for long rotation")
        ELSE IF manhattan_dist # 1 /\ ~is_diagonal
                  /\ ~(manhattan_dist = 2 /\ (dx = 0 \/ dy = 0))
        THEN Fail(e, "Invalid rotation distance")
        ELSE Done(SpendAction(e1, player_id))

\* _apply_rotate with a diagonal or long swap allowed when either of the two
\* units is Cavalry
_apply_rotate_either_cavalry(e, params, player_id) ==
    LET source         == params.source
        target         == params.target
        unit           == At(e, source)
        target_unit    == At(e, target)
        dx             == abs(target[2] - source[2])
        dy             == abs(target[1] - source[1])
        is_diagonal    == dx = 1 /\ dy = 1
        manhattan_dist == dx + dy
        mid            == <<(source[1] + target[1]) \div 2,
                            (source[2] + target[2]) \div 2>>
        swapped_in     == [target_unit[1] EXCEPT !.position = source]
        initiator      == [unit[1] EXCEPT !.position = target,
                                          !.acted_this_turn = TRUE]
        e1             == [e EXCEPT !.grid = Put(Put(@, source, Some(swapped_in)),
                                                 target, Some(initiator))]
    IN  IF unit = None \/ unit[1].owner_id # player_id
        THEN Fail(e, "No friendly unit at source")
        ELSE IF unit[1].acted_this_turn THEN Fail(e, "Unit already acted")
        ELSE IF target_unit = None \/ target_unit[1].owner_id # player_id
        THEN Fail(e, "No friendly unit at target")
        ELSE IF unit[1].unit_type = target_unit[1].unit_type
        THEN Fail(e, "Cannot swap units of same type")
        ELSE IF manhattan_dist # 1 /\ is_diagonal /\ unit[1].unit_type # CAVALRY
                  /\ target_unit[1].unit_type # CAVALRY
        THEN Fail(e, "Only cavalry can do diagonal swaps")
        ELSE IF manhattan_dist # 1 /\ ~is_diagonal
                  /\ manhattan_dist = 2 /\ (dx = 0 \/ dy = 0)
                  /\ unit[1].unit_type # CAVALRY
                  /\ target_unit[1].unit_type # CAVALRY
        THEN Fail(e, "Only cavalry can do long rotations")
        ELSE IF manhattan_dist # 1 /\ ~is_diagonal
                  /\ manhattan_dist = 2 /\ (dx = 0 \/ dy = 0)
                  /\ At(e, mid) # None
        THEN Fail(e, "Middle tile not empty for long rotation")
        ELSE IF manhattan_dist # 1 /\ ~is_diagonal
                  /\ ~(manhattan_dist = 2 /\ (dx = 0 \/ dy = 0))
        THEN Fail(e, "Invalid rotation distance")
        ELSE Done(SpendAction(e1, player_id))

\* _apply_rotate that writes the initiating unit into the target cell and
\* leaves the source cell as it was
_apply_rotate_copying(e, params, player_id) ==
    LET source         == params.source
        target         == params.target
        unit           == At(e, source)
        target_unit    == At(e, target)
        dx             == abs(target[2] - source[2])
        dy             == abs(target[1] - source[1])
        is_diagonal    == dx = 1 /\ dy = 1
        manhattan_dist == dx + dy
        mid            == <<(source[1] + target[1]) \div 2,
                            (source[2] + target[2]) \div 2>>
        swapped_in     == [target_unit[1] EXCEPT !.position = source]
        initiator      == [unit[1] EXCEPT !.position = target,
                                          !.acted_this_turn = TRUE]
        e1             == [e EXCEPT !.grid = Put(@, target, Some(initiator))]
    IN  IF unit = None \/ unit[1].owner_id # player_id
        THEN Fail(e, "No friendly unit at source")
        ELSE IF unit[1].acted_this_turn THEN Fail(e, "Unit already acted")
        ELSE IF target_unit = None \/ target_unit[1].owner_id # player_id
        THEN Fail(e, "No friendly unit at target")
        ELSE IF unit[1].unit_type = target_unit[1].unit_type
        THEN Fail(e, "Cannot swap units of same type")
        ELSE IF manhattan_dist # 1 /\ is_diagonal /\ unit[1].unit_type # CAVALRY
        THEN Fail(e, "Only cavalry can do diagonal swaps")
        ELSE IF manhattan_dist # 1 /\ ~is_diagonal
                  /\ manhattan_dist = 2 /\ (dx = 0 \/ dy = 0)
                  /\ unit[1].unit_type # CAVALRY
        THEN Fail(e, "Only cavalry can do long rotations")
        ELSE IF manhattan_dist # 1 /\ ~is_diagonal
                  /\ manhattan_dist = 2 /\ (dx = 0 \/ dy = 0)
                  /\ At(e, mid) # None
        THEN Fail(e, "Middle tile not empty for long rotation")
        ELSE IF manhattan_dist # 1 /\ ~is_diagonal
                  /\ ~(manhattan_dist = 2 /\ (dx = 0 \/ dy = 0))
        THEN Fail(e, "Invalid rotation distance")
        ELSE Done(SpendAction(e1, player_id))

_apply_rotate(e, params, player_id) ==
    LET source         == params.source
        target         == params.target
        unit           == At(e, source)
        target_unit    == At(e, target)
        dx             == abs(target[2] - source[2])
        dy             == abs(target[1] - source[1])
        is_diagonal    == dx = 1 /\ dy = 1
        manhattan_dist == dx + dy
        mid            == <<(source[1] + target[1]) \div 2,
                            (source[2] + target[2]) \div 2>>
        swapped_in     == [target_unit[1] EXCEPT !.position = source]
        initiator      == [unit[1] EXCEPT !.position = target,
                                          !.acted_this_turn = TRUE]
        e1             == [e EXCEPT !.grid = Put(Put(@, source, Some(swapped_in)),
                                                 target, Some(initiator))]
    IN  IF unit = None \/ unit[1].owner_id # player_id
        THEN Fail(e, "No friendly unit at source")
        ELSE IF unit[1].acted_this_turn THEN Fail(e, "Unit already acted")
        ELSE IF target_unit = None \/ target_unit[1].owner_id # player_id
        THEN Fail(e, "No friendly unit at target")
        ELSE IF unit[1].unit_type = target_unit[1].unit_type
        THEN Fail(e, "Cannot swap units of same type")
        ELSE IF manhattan_dist # 1 /\ is_diagonal /\ unit[1].unit_type # CAVALRY
        THEN Fail(e, "Only cavalry can do diagonal swaps")
        ELSE IF manhattan_dist # 1 /\ ~is_diagonal
                  /\ manhattan_dist = 2 /\ (dx = 0 \/ dy = 0)
                  /\ unit[1].unit_type # CAVALRY
        THEN Fail(e, "Only cavalry can do long rotations")
        ELSE IF manhattan_dist # 1 /\ ~is_diagonal
                  /\ manhattan_dist = 2 /\ (dx = 0 \/ dy = 0)
                  /\ At(e, mid) # None
        THEN Fail(e, "Middle tile not empty for long rotation")
        ELSE IF manhattan_dist # 1 /\ ~is_diagonal
                  /\ ~(manhattan_dist = 2 /\ (dx = 0 \/ dy = 0))
        THEN Fail(e, "Invalid rotation distance")
        ELSE Done(SpendAction(e1, player_id))

\* _apply_action taking the outgoing player's actions at END_TURN
_apply_action_end_turn_spends(e, action_type, params, player_id) ==
    IF action_type = "END_TURN"
    THEN Done(_end_turn([e EXCEPT !.players[player_id].actions_remaining = 0]))
    ELSE IF e.players[player_id].actions_remaining <= 0
    THEN Fail(e, "No actions remaining")
    ELSE IF action_type = "DEPLOY" THEN _apply_deploy(e, params, player_id)
    ELSE IF action_type = "MOVE" THEN _apply_move(e, params, player_id)
    ELSE IF action_type = "ATTACK" THEN _apply_attack(e, params, player_id)
    ELSE IF action_type = "ROTATE" THEN _apply_rotate(e, params, player_id)
    ELSE Fail(e, "Unknown action type")

_apply_action(e, action_type, params, player_id) ==
    IF action_type = "END_TURN" THEN Done(_end_turn(e))
    ELSE IF e.players[player_id].actions_remaining <= 0
    THEN Fail(e, "No actions remaining")
    ELSE IF action_type = "DEPLOY" THEN _apply_deploy(e, params, player_id)
    ELSE IF action_type = "MOVE" THEN _apply_move(e, params, player_id)
    ELSE IF action_type = "ATTACK" THEN _apply_attack(e, params, player_id)
    ELSE IF action_type = "ROTATE" THEN _apply_rotate(e, params, player_id)
    ELSE Fail(e, "Unknown action type")

-----------------------------------------------------------------------------
(* Draw detection *)

\* _compute_state_hash with the turn number added to the state string
_compute_state_hash_with_turn(e) ==
    [cells  |-> {<<pos, At(e, pos)[1].unit_type, At(e, pos)[1].owner_id>> :
                    pos \in {q \in Positions : At(e, q) # None}},
     cp     |-> [i \in DOMAIN CONTROL_POINTS |->
                    _get_control_owner(e, CONTROL_POINTS[i])],
     player |-> e.current_player,
     turn   |-> e.turn_number]

\* The canonical state string: the cell contents in row-major order (here the
\* occupied cells with their (type, owner), every other cell being "empty"),
\* the control points' owners, the player to move.
_compute_state_hash(e) ==
    [cells  |-> {<<pos, At(e, pos)[1].unit_type, At(e, pos)[1].owner_id>> :
                    pos \in {q \in Positions : At(e, q) # None}},
     cp     |-> [i \in DOMAIN CONTROL_POINTS |->
                    _get_control_owner(e, CONTROL_POINTS[i])],
     player |-> e.current_player]

\* _check_draw_conditions with the no-progress test ahead of the other two
_check_draw_conditions_no_progress_first(e) ==
    LET state_hash == _compute_state_hash(e)
        counted    == [e EXCEPT !.state_hash_counts =
                          DictSet(@, state_hash, DictGet(@, state_hash, 0) + 1)]
    IN  IF e.turns_since_last_capture >= NO_PROGRESS_TURN_LIMIT
              /\ e.turns_since_last_unit_death >= NO_PROGRESS_TURN_LIMIT
        THEN [draw |-> TRUE, reason |-> "NO_PROGRESS", env |-> e]
        ELSE IF e.turn_number >= MAX_TURN_LIMIT
        THEN [draw |-> TRUE, reason |-> "MAX_TURNS", env |-> e]
        ELSE IF counted.state_hash_counts[state_hash] >= REPEATED_STATE_LIMIT
        THEN [draw |-> TRUE, reason |-> "REPEATED_STATE", env |-> counted]
        ELSE [draw |-> FALSE, reason |-> "NONE", env |-> counted]

\* _check_draw_conditions with the repetition reported after the limit (> for >=)
_check_draw_conditions_after_limit(e) ==
    LET state_hash == _compute_state_hash(e)
        counted    == [e EXCEPT !.state_hash_counts =
                          DictSet(@, state_hash, DictGet(@, state_hash, 0) + 1)]
    IN  IF e.turn_number >= MAX_TURN_LIMIT
        THEN [draw |-> TRUE, reason |-> "MAX_TURNS", env |-> e]
        ELSE IF counted.state_hash_counts[state_hash] > REPEATED_STATE_LIMIT
        THEN [draw |-> TRUE, reason |-> "REPEATED_STATE", env |-> counted]
        ELSE IF counted.turns_since_last_capture >= NO_PROGRESS_TURN_LIMIT
                  /\ counted.turns_since_last_unit_death >= NO_PROGRESS_TURN_LIMIT
        THEN [draw |-> TRUE, reason |-> "NO_PROGRESS", env |-> counted]
        ELSE [draw |-> FALSE, reason |-> "NONE", env |-> counted]

\* _check_draw_conditions with one no-progress counter enough (or for and)
_check_draw_conditions_either_counter(e) ==
    LET state_hash == _compute_state_hash(e)
        counted    == [e EXCEPT !.state_hash_counts =
                          DictSet(@, state_hash, DictGet(@, state_hash, 0) + 1)]
    IN  IF e.turn_number >= MAX_TURN_LIMIT
        THEN [draw |-> TRUE, reason |-> "MAX_TURNS", env |-> e]
        ELSE IF counted.state_hash_counts[state_hash] >= REPEATED_STATE_LIMIT
        THEN [draw |-> TRUE, reason |-> "REPEATED_STATE", env |-> counted]
        ELSE IF counted.turns_since_last_capture >= NO_PROGRESS_TURN_LIMIT
                  \/ counted.turns_since_last_unit_death >= NO_PROGRESS_TURN_LIMIT
        THEN [draw |-> TRUE, reason |-> "NO_PROGRESS", env |-> counted]
        ELSE [draw |-> FALSE, reason |-> "NONE", env |-> counted]

\* _check_draw_conditions with the turn limit reached one turn late (> for >=)
_check_draw_conditions_past_max_turns(e) ==
    LET state_hash == _compute_state_hash(e)
        counted    == [e EXCEPT !.state_hash_counts =
                          DictSet(@, state_hash, DictGet(@, state_hash, 0) + 1)]
    IN  IF e.turn_number > MAX_TURN_LIMIT
        THEN [draw |-> TRUE, reason |-> "MAX_TURNS", env |-> e]
        ELSE IF counted.state_hash_counts[state_hash] >= REPEATED_STATE_LIMIT
        THEN [draw |-> TRUE, reason |-> "REPEATED_STATE", env |-> counted]
        ELSE IF counted.turns_since_last_capture >= NO_PROGRESS_TURN_LIMIT
                  /\ counted.turns_since_last_unit_death >= NO_PROGRESS_TURN_LIMIT
        THEN [draw |-> TRUE, reason |-> "NO_PROGRESS", env |-> counted]
        ELSE [draw |-> FALSE, reason |-> "NONE", env |-> counted]

_check_draw_conditions(e) ==
    LET state_hash == _compute_state_hash(e)
        counted    == [e EXCEPT !.state_hash_counts =
                          DictSet(@, state_hash, DictGet(@, state_hash, 0) + 1)]
    IN  IF e.turn_number >= MAX_TURN_LIMIT
        THEN [draw |-> TRUE, reason |-> "MAX_TURNS", env |-> e]
        ELSE IF counted.state_hash_counts[state_hash] >= REPEATED_STATE_LIMIT
        THEN [draw |-> TRUE, reason |-> "REPEATED_STATE", env |-> counted]
        ELSE IF counted.turns_since_last_capture >= NO_PROGRESS_TURN_LIMIT
                  /\ counted.turns_since_last_unit_death >= NO_PROGRESS_TURN_LIMIT
        THEN [draw |-> TRUE, reason |-> "NO_PROGRESS", env |-> counted]
        ELSE [draw |-> FALSE, reason |-> "NONE", env |-> counted]

\* _get_draw_reward that does not look at training_mode
_get_draw_reward_in_every_mode(e, reason) ==
    IF reason = "NO_PROGRESS" THEN rewards.draw_no_progress
    ELSE IF reason = "REPEATED_STATE" THEN rewards.draw_repetition
    ELSE IF reason = "MAX_TURNS" THEN rewards.draw_max_turns
    ELSE rewards.draw_default

_get_draw_reward(e, reason) ==
    IF ~e.training_mode THEN rewards.draw_default
    ELSE IF reason = "NO_PROGRESS" THEN rewards.draw_no_progress
    ELSE IF reason = "REPEATED_STATE" THEN rewards.draw_repetition
    ELSE IF reason = "MAX_TURNS" THEN rewards.draw_max_turns
    ELSE rewards.draw_default

-----------------------------------------------------------------------------
(* step *)

\* The shaping reward of an applied action: before is the environment the
\* action was applied to, after the environment it left.
ShapingReward(before, after, player_id) ==
    LET enemy_id         == 1 - player_id
        prev_control     == _count_control_points(before, player_id)
        prev_units       == _count_units(before, player_id)
        prev_enemy_units == _count_units(before, enemy_id)
        curr_control     == _count_control_points(after, player_id)
        enemy_control    == _count_control_points(after, enemy_id)
        curr_units       == _count_units(after, player_id)
        curr_enemy_units == _count_units(after, enemy_id)
    IN  rewards.turn_penalty
        + (IF curr_control > prev_control
           THEN rewards.capture_control_point * (curr_control - prev_control)
           ELSE IF curr_control < prev_control
           THEN rewards.lose_control_point * (prev_control - curr_control)
           ELSE 0)
        + rewards.control_point_advantage * (curr_control - enemy_control)
        + (IF curr_units < prev_units
           THEN rewards.lose_own_unit * (prev_units - curr_units) ELSE 0)
        + (IF curr_enemy_units < prev_enemy_units
           THEN rewards.defeat_enemy_unit * (prev_enemy_units - curr_enemy_units)
           ELSE 0)

\* What step returns: the environment after the call, reward, done, and of
\* info the winner and the error; action_type is the decoded kind (None when
\* the call is turned down before decoding).
Rejection(e, action_type, msg) ==
    [env |-> e, valid |-> FALSE, action_type |-> action_type, error |-> msg,
     reward |-> rewards.invalid_action_penalty, done |-> FALSE, winner |-> None]

\* step left by an exception: nothing is returned (no reward, no done) and the
\* environment is as the raise found it.
Raised(e, exception) ==
    [env |-> e, valid |-> FALSE, action_type |-> None, error |-> exception,
     reward |-> 0, done |-> FALSE, winner |-> None]

\* CheckGameEnd with the draw conditions ahead of the win conditions
CheckGameEndDrawFirst(tracked, action_type, player_id, shaping) ==
    LET winner == _check_winner(tracked)
        drawn  == _check_draw_conditions(tracked)
    IN  IF drawn.draw
        THEN [env |-> [drawn.env EXCEPT !.game_outcome = "DRAW",
                                        !.draw_reason = drawn.reason],
              valid |-> TRUE, action_type |-> Some(action_type), error |-> "",
              reward |-> _get_draw_reward(drawn.env, drawn.reason),
              done |-> TRUE, winner |-> None]
        ELSE IF winner # None
        THEN [env |-> [drawn.env EXCEPT !.game_outcome =
                          IF winner[1] = 0 THEN "PLAYER_0_WIN" ELSE "PLAYER_1_WIN"],
              valid |-> TRUE, action_type |-> Some(action_type), error |-> "",
              reward |-> IF winner[1] = player_id THEN rewards.win ELSE rewards.lose,
              done |-> TRUE, winner |-> winner]
        ELSE [env |-> drawn.env,
              valid |-> TRUE, action_type |-> Some(action_type), error |-> "",
              reward |-> shaping, done |-> FALSE, winner |-> None]

\* The end of step: the game-end checks on the environment the applied action
\* and the tracking of progress left, the win conditions first and then the
\* draw conditions.
CheckGameEnd(tracked, action_type, player_id, shaping) ==
    LET winner == _check_winner(tracked)
        drawn  == _check_draw_conditions(tracked)
    IN  IF winner # None
        THEN [env |-> [tracked EXCEPT !.game_outcome =
                          IF winner[1] = 0 THEN "PLAYER_0_WIN" ELSE "PLAYER_1_WIN"],
              valid |-> TRUE, action_type |-> Some(action_type), error |-> "",
              reward |-> IF winner[1] = player_id THEN rewards.win ELSE rewards.lose,
              done |-> TRUE, winner |-> winner]
        ELSE IF drawn.draw
        THEN [env |-> [drawn.env EXCEPT !.game_outcome = "DRAW",
                                        !.draw_reason = drawn.reason],
              valid |-> TRUE, action_type |-> Some(action_type), error |-> "",
              reward |-> _get_draw_reward(drawn.env, drawn.reason),
              done |-> TRUE, winner |-> None]
        ELSE [env |-> drawn.env,
              valid |-> TRUE, action_type |-> Some(action_type), error |-> "",
              reward |-> shaping, done |-> FALSE, winner |-> None]

step(e, action, player_id) ==
    LET parsed  == _parse_action(action)
        applied == _apply_action(e, parsed.action_type, parsed.params, player_id)
        a       == applied.env
        prev_total_units == _count_units(e, 0) + _count_units(e, 1)
        curr_total_units == _count_units(a, 0) + _count_units(a, 1)
        unit_died        == curr_total_units < prev_total_units
        control_changed  ==
            \E i \in DOMAIN CONTROL_POINTS :
                _get_control_owner(a, CONTROL_POINTS[i])
                    # _get_control_owner(e, CONTROL_POINTS[i])
        tracked == [a EXCEPT
                      !.turns_since_last_capture = IF control_changed THEN 0 ELSE @,
                      !.turns_since_last_unit_death = IF unit_died THEN 0 ELSE @]
        shaping == ShapingReward(e, tracked, player_id)
    IN  IF player_id # e.current_player THEN Rejection(e, None, "Not your turn")
        ELSE IF parsed.action_type = "ValueError" THEN Raised(e, "ValueError")
        ELSE IF ~applied.valid
        THEN Rejection(a, Some(parsed.action_type), applied.error)
        ELSE CheckGameEnd(tracked, parsed.action_type, player_id, shaping)

-----------------------------------------------------------------------------
(* Observation *)

\* _get_observation marking the owner by its id: channel 7 for player 0 and
\* channel 8 for player 1
_get_observation_absolute_owner(e, player_id) ==
    LET Channels(pos) ==
            LET unit == At(e, pos)
            IN  (IF unit # None
                 THEN {unit[1].unit_type}
                      \cup (IF unit[1].owner_id = 0 THEN {7} ELSE {8})
                      \cup (IF unit[1].acted_this_turn THEN {9} ELSE {})
                 ELSE {0, 6})
                \cup (IF \E i \in DOMAIN CONTROL_POINTS : CONTROL_POINTS[i] = pos
                      THEN {10} ELSE {})
        player == e.players[player_id]
        enemy  == e.players[1 - player_id]
    IN  [spatial |-> [pos \in Positions |-> Channels(pos)],
         global_features |->
            <<e.turn_number, player.actions_remaining,
              player.deployments_remaining, enemy.deployments_remaining,
              _count_control_points(e, player_id),
              _count_control_points(e, 1 - player_id),
              IF e.current_player = player_id THEN 1 ELSE 0>>]

\* The observation of player_id: per cell the channels of the spatial array
\* set to 1.0 (the others are 0.0), and the global features by their
\* numerators (the source divides them by the constants 100, 3, 10, 10, 3, 3).
_get_observation(e, player_id) ==
    LET Channels(pos) ==
            LET unit == At(e, pos)
            IN  (IF unit # None
                 THEN {unit[1].unit_type}
                      \cup (IF unit[1].owner_id = player_id THEN {7} ELSE {8})
                      \cup (IF unit[1].acted_this_turn THEN {9} ELSE {})
                 ELSE {0, 6})
                \cup (IF \E i \in DOMAIN CONTROL_POINTS : CONTROL_POINTS[i] = pos
                      THEN {10} ELSE {})
        player == e.players[player_id]
        enemy  == e.players[1 - player_id]
    IN  [spatial |-> [pos \in Positions |-> Channels(pos)],
         global_features |->
            <<e.turn_number, player.actions_remaining,
              player.deployments_remaining, enemy.deployments_remaining,
              _count_control_points(e, player_id),
              _count_control_points(e, 1 - player_id),
              IF e.current_player = player_id THEN 1 ELSE 0>>]

\* The elements of an observation vector are written in units of 1/One: One
\* is 1.0, and a feature n / 100.0, n / 3.0 or n / 10.0 is n * (One / 100),
\* n * (One / 3) or n * (One / 10).
One == 300

STATE_CHANNELS == 11

GLOBAL_FEATURES == 7

\* GRID_SIZE * GRID_SIZE * STATE_CHANNELS + GLOBAL_FEATURES
observation_size == GRID_SIZE * GRID_SIZE * STATE_CHANNELS + GLOBAL_FEATURES

action_size == ACTION_SPACE_SIZE

\* np.concatenate([spatial.flatten(), global_features]) for the observation
\* obs: element (row * 5 + col) * STATE_CHANNELS + channel of the spatial
\* array, then the global features divided as the source divides them
ObservationVector(obs) ==
    [k \in 0 .. (observation_size - 1) |->
        IF k < GRID_SIZE * GRID_SIZE * STATE_CHANNELS
        THEN LET cell == k \div STATE_CHANNELS
                 pos  == <<cell \div GRID_SIZE, cell % GRID_SIZE>>
             IN  IF (k % STATE_CHANNELS) \in obs.spatial[pos] THEN One ELSE 0
        ELSE LET g == obs.global_features
             IN  <<g[1] * (One \div 100), g[2] * (One \div 3),
                   g[3] * (One \div 10), g[4] * (One \div 10),
                   g[5] * (One \div 3), g[6] * (One \div 3),
                   g[7] * One>>[k - GRID_SIZE * GRID_SIZE * STATE_CHANNELS + 1]]

-----------------------------------------------------------------------------
(* The inference boundary (src/rl/inference.py) *)

BOARD_SIZE == 5

NUM_UNIT_TYPES == 5

SPATIAL_CHANNELS == 11

INFERENCE_GLOBAL_FEATURES == 7

OBS_DIM == BOARD_SIZE * BOARD_SIZE * SPATIAL_CHANNELS + INFERENCE_GLOBAL_FEATURES

ACTION_DIM == 2001

\* The description of the state of e that is handed to the inference side:
\* the keys state_to_observation reads (grid cells with type, owner and
\* acted, currentPlayer, turnNumber, and per player actionsRemaining and
\* deploymentsRemaining).
Description(e) ==
    [grid |-> [r \in Rows |-> [c \in Cols |->
                 IF e.grid[r][c] = None THEN None
                 ELSE Some([type  |-> e.grid[r][c][1].unit_type,
                            owner |-> e.grid[r][c][1].owner_id,
                            acted |-> e.grid[r][c][1].acted_this_turn])]],
     currentPlayer |-> e.current_player,
     turnNumber |-> e.turn_number,
     players |-> [p \in Players |->
                    [actionsRemaining |-> e.players[p].actions_remaining,
                     deploymentsRemaining |-> e.players[p].deployments_remaining]]]

\* state_to_observation(state, player_id), element by element
state_to_observation(state, player_id) ==
    LET base_idx   == BOARD_SIZE * BOARD_SIZE * SPATIAL_CHANNELS
        my_player  == state.players[player_id]
        opp_player == state.players[1 - player_id]
        Spatial(k) ==
            LET idx    == k \div SPATIAL_CHANNELS
                cell   == state.grid[idx \div BOARD_SIZE][idx % BOARD_SIZE]
                offset == k % SPATIAL_CHANNELS
            IN  IF cell = None THEN 0
                ELSE IF offset < NUM_UNIT_TYPES
                THEN IF 1 <= cell[1].type /\ cell[1].type <= NUM_UNIT_TYPES
                        /\ offset = cell[1].type - 1
                     THEN One ELSE 0
                ELSE IF offset = NUM_UNIT_TYPES
                THEN IF cell[1].owner = player_id THEN One ELSE -One
                ELSE IF offset = NUM_UNIT_TYPES + 1
                THEN IF cell[1].acted THEN One ELSE 0
                ELSE 0
        Global ==
            <<IF state.currentPlayer = player_id THEN One ELSE 0,
              IF state.turnNumber * (One \div 100) < One
              THEN state.turnNumber * (One \div 100) ELSE One,
              my_player.actionsRemaining * (One \div 3),
              my_player.deploymentsRemaining * (One \div 10),
              opp_player.actionsRemaining * (One \div 3),
              opp_player.deploymentsRemaining * (One \div 10),
              player_id * One>>
    IN  [k \in 0 .. (OBS_DIM - 1) |->
            IF k < base_idx THEN Spatial(k) ELSE Global[k - base_idx + 1]]

-----------------------------------------------------------------------------
(* Action mask *)

get_valid_actions_mask(e, player_id) ==
    LET player          == e.players[player_id]
        has_actions     == player.actions_remaining > 0
        has_deployments == player.deployments_remaining > 0
        deploy_row      == IF player_id = 0 THEN 0 ELSE 4
        Mine(pos)       == At(e, pos) # None /\ At(e, pos)[1].owner_id = player_id
                              /\ ~At(e, pos)[1].acted_this_turn
        deploys ==
            IF has_actions /\ has_deployments
            THEN {_encode_deploy(unit_type_idx + 1, col) :
                    <<unit_type_idx, col>> \in
                        {<<t, c>> \in (0 .. 4) \X Cols :
                            /\ ~DeployLimitReached(player, t + 1)
                            /\ e.grid[deploy_row][c] = None}}
            ELSE {}
        moves ==
            IF has_actions
            THEN {_encode_move(st[1], st[2]) :
                    st \in {x \in Positions \X Positions :
                              Mine(x[1]) /\ _can_move(e, At(e, x[1])[1], x[1], x[2])}}
            ELSE {}
        attacks ==
            IF has_actions
            THEN {_encode_attack(st[1], st[2]) :
                    st \in {x \in Positions \X Positions :
                              /\ Mine(x[1])
                              /\ At(e, x[2]) # None
                              /\ At(e, x[2])[1].owner_id # player_id
                              /\ _can_attack(e, At(e, x[1])[1], x[1], x[2],
                                             At(e, x[2])[1])}}
            ELSE {}
        rotates ==
            IF has_actions
            THEN {_encode_rotate(st[1], st[2]) :
                    st \in {x \in Positions \X Positions :
                              Mine(x[1])
                              /\ _can_rotate(e, At(e, x[1])[1], x[1], x[2], player_id)}}
            ELSE {}
    IN  IF player_id # e.current_player THEN {}
        ELSE deploys \cup moves \cup attacks \cup rotates \cup {ACTION_SPACE_SIZE - 1}

-----------------------------------------------------------------------------
(* The engine as a state machine *)

initial_deployment_counts ==
    [t \in {SWORDSMAN, SHIELDMAN, AXEMAN, CAVALRY, ARCHER, SPEARMAN} |-> 0]

\* NovusXEnv(): the fields the constructor sets; it leaves no game state
\* (self.state is None) until reset() is called.
Constructed ==
    [_unit_counter |-> 0,
     state_hash_counts |-> << >>,
     turns_since_last_capture |-> 0,
     turns_since_last_unit_death |-> 0,
     game_outcome |-> "IN_PROGRESS",
     draw_reason |-> "NONE",
     training_mode |-> TRUE]

\* reset() with the table of state counts of the game before left in place
reset_keeping_hash_counts(e) ==
    [grid |-> [r \in Rows |-> [c \in Cols |-> None]],
     current_player |-> 0,
     turn_number |-> 1,
     players |-> [p \in Players |->
                    [id |-> p,
                     actions_remaining |-> IF p = 0 THEN 1 ELSE 0,
                     deployments_remaining |-> 10,
                     deployment_counts |-> initial_deployment_counts]],
     free_deployments_remaining |-> 0,
     has_acted_this_turn |-> FALSE,
     _unit_counter |-> 0,
     state_hash_counts |-> e.state_hash_counts,
     turns_since_last_capture |-> 0,
     turns_since_last_unit_death |-> 0,
     game_outcome |-> "IN_PROGRESS",
     draw_reason |-> "NONE",
     training_mode |-> e.training_mode]

\* reset that leaves the two no-progress counters as they are
reset_keeping_counters(e) ==
    [grid |-> [r \in Rows |-> [c \in Cols |-> None]],
     current_player |-> 0,
     turn_number |-> 1,
     players |-> [p \in Players |->
                    [id |-> p,
                     actions_remaining |-> IF p = 0 THEN 1 ELSE 0,
                     deployments_remaining |-> 10,
                     deployment_counts |-> initial_deployment_counts]],
     free_deployments_remaining |-> 0,
     has_acted_this_turn |-> FALSE,
     _unit_counter |-> 0,
     state_hash_counts |-> << >>,
     turns_since_last_capture |-> e.turns_since_last_capture,
     turns_since_last_unit_death |-> e.turns_since_last_unit_death,
     game_outcome |-> "IN_PROGRESS",
     draw_reason |-> "NONE",
     training_mode |-> e.training_mode]

\* The environment reset() builds; training_mode is not touched by reset().
reset(e) ==
    [grid |-> [r \in Rows |-> [c \in Cols |-> None]],
     current_player |-> 0,
     turn_number |-> 1,
     players |-> [p \in Players |->
                    [id |-> p,
                     actions_remaining |-> IF p = 0 THEN 1 ELSE 0,
                     deployments_remaining |-> 10,
                     deployment_counts |-> initial_deployment_counts]],
     free_deployments_remaining |-> 0,
     has_acted_this_turn |-> FALSE,
     _unit_counter |-> 0,
     state_hash_counts |-> << >>,
     turns_since_last_capture |-> 0,
     turns_since_last_unit_death |-> 0,
     game_outcome |-> "IN_PROGRESS",
     draw_reason |-> "NONE",
     training_mode |-> e.training_mode]

\* The variables take the fields of e.
Becomes(e) ==
    /\ grid' = e.grid
    /\ current_player' = e.current_player
    /\ turn_number' = e.turn_number
    /\ players' = e.players
    /\ free_deployments_remaining' = e.free_deployments_remaining
    /\ has_acted_this_turn' = e.has_acted_this_turn
    /\ _unit_counter' = e._unit_counter
    /\ state_hash_counts' = e.state_hash_counts
    /\ turns_since_last_capture' = e.turns_since_last_capture
    /\ turns_since_last_unit_death' = e.turns_since_last_unit_death
    /\ game_outcome' = e.game_outcome
    /\ draw_reason' = e.draw_reason
    /\ training_mode' = e.training_mode

\* The last call and what it returned.  The action index is kept for an
\* applied action only.
ResetResult ==
    [call |-> "reset", player_id |-> None, action |-> None,
     action_type |-> None, valid |-> TRUE,
     error |-> "", reward |-> 0, done |-> FALSE, winner |-> None]

\* The variables hold the fields of e.
StartsAs(e) ==
    /\ grid = e.grid
    /\ current_player = e.current_player
    /\ turn_number = e.turn_number
    /\ players = e.players
    /\ free_deployments_remaining = e.free_deployments_remaining
    /\ has_acted_this_turn = e.has_acted_this_turn
    /\ _unit_counter = e._unit_counter
    /\ state_hash_counts = e.state_hash_counts
    /\ turns_since_last_capture = e.turns_since_last_capture
    /\ turns_since_last_unit_death = e.turns_since_last_unit_death
    /\ game_outcome = e.game_outcome
    /\ draw_reason = e.draw_reason
    /\ training_mode = e.training_mode

StepResult(r, action, player_id) ==
    [call |-> "step", player_id |-> Some(player_id),
     action |-> IF r.valid THEN Some(action) ELSE None,
     action_type |-> r.action_type, valid |-> r.valid,
     error |-> r.error, reward |-> r.reward, done |-> r.done,
     winner |-> r.winner]

\* clone() with the table of state counts handed over, not copied
clone_sharing_hash_counts(e) ==
    [env    |-> [e EXCEPT !.training_mode = Constructed.training_mode],
     shared |-> {"state_hash_counts"}]

\* clone(): a new instance (training_mode as the constructor sets it), a
\* deep copy of the state and of the table of state counts, the scalars
\* copied; no object is shared.
clone(e) ==
    [env    |-> [e EXCEPT !.training_mode = Constructed.training_mode],
     shared |-> {}]

\* The instance other after a call on the instance it shares the objects
\* objs with has left that instance as changed: the shared objects were
\* mutated in place, the rest of other is as it was.
Seen(other, objs, changed) ==
    [other EXCEPT
        !.grid = IF "state" \in objs THEN changed.grid ELSE @,
        !.current_player = IF "state" \in objs THEN changed.current_player ELSE @,
        !.turn_number = IF "state" \in objs THEN changed.turn_number ELSE @,
        !.players = IF "state" \in objs THEN changed.players ELSE @,
        !.free_deployments_remaining =
            IF "state" \in objs THEN changed.free_deployments_remaining ELSE @,
        !.has_acted_this_turn =
            IF "state" \in objs THEN changed.has_acted_this_turn ELSE @,
        !.state_hash_counts =
            IF "state_hash_counts" \in objs THEN changed.state_hash_counts ELSE @]

-----------------------------------------------------------------------------
(* MultiAgentEnv (multi_agent_env.py): the self-play environment.  It keeps
   a game state of its own (a dict, the units dicts of type, owner and
   acted) and shares no object with NovusXEnv.  An instance is a record of
   the fields of game_state and of turn_count, done, winner, draw_reason
   and max_turns; the action mask is the set of the indices it enables. *)

MULTI_GRID_SIZE == 5

UNIT_TYPES == <<"swordsman", "shieldman", "axeman", "cavalry", "archer", "spearman">>

MULTI_ACTION_SPACE_SIZE == 700

UnitTypeNames == {UNIT_TYPES[i] : i \in 1 .. Len(UNIT_TYPES)}

MultiPositions == (0 .. (MULTI_GRID_SIZE - 1)) \X (0 .. (MULTI_GRID_SIZE - 1))

action_end_turn == 0

action_deploy_start == 1

action_deploy_end == 30

action_move_start == 31

action_move_end == 130

action_rotate_start == 131

action_rotate_end == 230

action_attack_start == 231

action_attack_end == 630

\* (up, right, down, left); directions_4[dir_idx] of the source is
\* directions_4[dir_idx + 1] here
directions_4 == << <<-1, 0>>, <<0, 1>>, <<1, 0>>, <<0, -1>> >>

directions_8 ==
    << <<-1, 0>>, <<-1, 1>>, <<0, 1>>, <<1, 1>>,
       <<1, 0>>, <<1, -1>>, <<0, -1>>, <<-1, -1>> >>

control_points == << <<2, 0>>, <<2, 2>>, <<2, 4>> >>

\* MultiAgentConfig.reward_win, reward_loss, reward_draw_turn_limit and
\* reward_draw_other, in thousandths
reward_win == 1000

reward_loss == -1000

reward_draw_turn_limit == -100

reward_draw_other == 0

\* (sr + dr * dist, sc + dc * dist)
Along(source, dir, dist) == <<source[1] + dir[1] * dist, source[2] + dir[2] * dist>>

\* row * GRID_SIZE + col
source_idx_of(pos) == pos[1] * MULTI_GRID_SIZE + pos[2]

\* (source_idx // GRID_SIZE, source_idx % GRID_SIZE)
source_of(source_idx) == <<source_idx \div MULTI_GRID_SIZE, source_idx % MULTI_GRID_SIZE>>

_create_initial_state ==
    [grid |-> [pos \in MultiPositions |-> None],
     players |-> [p \in {0, 1} |->
                    [id |-> p,
                     deployments_remaining |-> 10,
                     deployment_counts |-> [ut \in UnitTypeNames |-> 0],
                     actions_remaining |-> IF p = 0 THEN 1 ELSE 0]],
     current_player |-> 0,
     turn_number |-> 1,
     free_deployments |-> 0,
     has_acted |-> FALSE]

\* reset(): a new game state; max_turns stays as the constructor set it
MultiAgentEnv_reset(e) ==
    [grid |-> _create_initial_state.grid,
     players |-> _create_initial_state.players,
     current_player |-> _create_initial_state.current_player,
     turn_number |-> _create_initial_state.turn_number,
     free_deployments |-> _create_initial_state.free_deployments,
     has_acted |-> _create_initial_state.has_acted,
     max_turns |-> e.max_turns,
     turn_count |-> 0,
     done |-> FALSE,
     winner |-> None,
     draw_reason |-> None]

\* MultiAgentEnv(config): self.max_turns = config.max_turns; self.reset()
MultiAgentEnv(config) == MultiAgentEnv_reset([max_turns |-> config.max_turns])

MultiAgentEnv_controls_position(e, player_id, pos) ==
    /\ e.grid[pos] # None
    /\ e.grid[pos][1].owner = player_id

_get_move_range(unit_type) == IF unit_type = "cavalry" THEN 2 ELSE 1

_get_attack_range(unit_type) == IF unit_type \in {"archer", "spearman"} THEN 2 ELSE 1

\* the target is empty and, for dist > 1, so is every cell on the way
_can_move_to(e, source, target, dist) ==
    /\ e.grid[target] = None
    /\ dist > 1 =>
         LET dr == IF target[1] > source[1] THEN 1
                   ELSE IF target[1] < source[1] THEN -1 ELSE 0
             dc == IF target[2] > source[2] THEN 1
                   ELSE IF target[2] < source[2] THEN -1 ELSE 0
         IN  \A k \in 1 .. (dist - 1) : e.grid[Along(source, <<dr, dc>>, k)] = None

melee_beats ==
    [a_type \in UnitTypeNames |->
        CASE a_type = "swordsman" -> {"archer", "cavalry", "axeman", "swordsman", "spearman"}
          [] a_type = "shieldman" -> {"archer"}
          [] a_type = "axeman" -> {"archer", "shieldman", "cavalry", "axeman", "spearman"}
          [] a_type = "cavalry" -> {"archer", "cavalry", "spearman"}
          [] a_type = "archer" -> {"archer"}
          [] a_type = "spearman" -> {"archer", "shieldman", "cavalry", "spearman"}]

ranged_beats ==
    [a_type \in {"archer", "spearman"} |->
        IF a_type = "archer"
        THEN {"archer", "cavalry", "axeman", "swordsman", "spearman"}
        ELSE {"archer", "cavalry", "spearman"}]

\* _can_attack(attacker, defender, distance): distance is the range level
\* the mask's loop is at
MultiAgentEnv_can_attack(attacker, defender, distance) ==
    IF distance = 1
    THEN defender.type \in DictGet(melee_beats, attacker.type, {})
    ELSE IF attacker.type = "archer" THEN defender.type \in ranged_beats["archer"]
    ELSE IF attacker.type = "spearman" THEN defender.type \in ranged_beats["spearman"]
    ELSE FALSE

\* the cells of the current player's units that have not acted
Ready(e) ==
    {pos \in MultiPositions :
        /\ e.grid[pos] # None
        /\ e.grid[pos][1].owner = e.current_player
        /\ ~e.grid[pos][1].acted}

_compute_action_mask(e) ==
    LET player == e.players[e.current_player]
        deploy_row == IF e.current_player = 0 THEN 0 ELSE 4
        deploys ==
            {action_deploy_start + (x[1] - 1) * 5 + x[2] :
                x \in {y \in (1 .. Len(UNIT_TYPES)) \X (0 .. (MULTI_GRID_SIZE - 1)) :
                         /\ player.deployment_counts[UNIT_TYPES[y[1]]] < 2
                         /\ e.grid[<<deploy_row, y[2]>>] = None}}
        moves ==
            {action_move_start + source_idx_of(x[1]) * 4 + (x[2] - 1) :
                x \in {y \in Ready(e) \X (1 .. 4) \X (1 .. 2) :
                         /\ y[3] <= _get_move_range(e.grid[y[1]][1].type)
                         /\ Along(y[1], directions_4[y[2]], y[3]) \in MultiPositions
                         /\ _can_move_to(e, y[1], Along(y[1], directions_4[y[2]], y[3]), y[3])}}
        rotates ==
            {action_rotate_start + source_idx_of(x[1]) * 4 + (x[2] - 1) :
                x \in {y \in Ready(e) \X (1 .. 4) :
                         LET target == Along(y[1], directions_4[y[2]], 1)
                         IN  /\ target \in MultiPositions
                             /\ e.grid[target] # None
                             /\ e.grid[target][1].owner = e.current_player
                             /\ e.grid[target][1].type # e.grid[y[1]][1].type}}
        attacks ==
            {action_attack_start + source_idx_of(x[1]) * 16 + (x[2] - 1) * 2 + (x[3] - 1) :
                x \in {y \in Ready(e) \X (1 .. 8) \X (1 .. 2) :
                         LET target == Along(y[1], directions_8[y[2]], y[3])
                         IN  /\ y[3] <= _get_attack_range(e.grid[y[1]][1].type)
                             /\ target \in MultiPositions
                             /\ e.grid[target] # None
                             /\ e.grid[target][1].owner # e.current_player
                             /\ MultiAgentEnv_can_attack(e.grid[y[1]][1],
                                                         e.grid[target][1], y[3])}}
    IN  IF player.actions_remaining <= 0 THEN {action_end_turn}
        ELSE {action_end_turn} \cup deploys \cup moves \cup rotates \cup attacks

\* player['actions_remaining'] -= 1; has_acted = True
Spent(e) ==
    [e EXCEPT !.players[e.current_player].actions_remaining = @ - 1,
              !.has_acted = TRUE]

\* a _deploy_unit that spends one of the player's deployments
_deploy_unit_spending(e, unit_type, row, col) ==
    Spent([e EXCEPT
        !.grid[<<row, col>>] =
            Some([type |-> unit_type, owner |-> e.current_player, acted |-> TRUE]),
        !.free_deployments = IF @ > 0 THEN @ - 1 ELSE @,
        !.players[e.current_player].deployment_counts[unit_type] = @ + 1,
        !.players[e.current_player].deployments_remaining = @ - 1])

\* deployments_remaining is not written
_deploy_unit(e, unit_type, row, col) ==
    Spent([e EXCEPT
        !.grid[<<row, col>>] =
            Some([type |-> unit_type, owner |-> e.current_player, acted |-> TRUE]),
        !.free_deployments = IF @ > 0 THEN @ - 1 ELSE @,
        !.players[e.current_player].deployment_counts[unit_type] = @ + 1])

_move_unit(e, source, target) ==
    LET unit == [e.grid[source][1] EXCEPT !.acted = TRUE]
        placed == [e.grid EXCEPT ![target] = Some(unit)]
    IN  Spent([e EXCEPT !.grid = [placed EXCEPT ![source] = None]])

_rotate_units(e, source, target) ==
    LET unit1 == [e.grid[source][1] EXCEPT !.acted = TRUE]
        unit2 == e.grid[target]
        placed == [e.grid EXCEPT ![source] = unit2]
    IN  Spent([e EXCEPT !.grid = [placed EXCEPT ![target] = Some(unit1)]])

\* distance is the Manhattan distance of the two cells: 2 for a diagonal
\* neighbour, 4 for a diagonal target two cells away
_attack(e, source, target) ==
    LET attacker == e.grid[source][1]
        defender == e.grid[target][1]
        distance == abs(target[1] - source[1]) + abs(target[2] - source[2])
        beats == IF distance = 1 THEN melee_beats ELSE ranged_beats
        defender_dies == defender.type \in DictGet(beats, attacker.type, {})
        attacker_dies == attacker.type \in DictGet(beats, defender.type, {})
        marked == [e.grid EXCEPT ![source] = Some([attacker EXCEPT !.acted = TRUE])]
        cleared == [marked EXCEPT ![source] = IF attacker_dies THEN None ELSE @]
    IN  Spent([e EXCEPT
            !.grid = [cleared EXCEPT ![target] = IF defender_dies THEN None ELSE @]])

MultiAgentEnv_end_turn(e) ==
    LET next_player == 1 - e.current_player
        rested == [e EXCEPT
                     !.grid = [pos \in MultiPositions |->
                                 IF e.grid[pos] = None THEN None
                                 ELSE Some([e.grid[pos][1] EXCEPT !.acted = FALSE])]]
        controls_left == MultiAgentEnv_controls_position(rested, next_player, <<2, 0>>)
        controls_center == MultiAgentEnv_controls_position(rested, next_player, <<2, 2>>)
        controls_right == MultiAgentEnv_controls_position(rested, next_player, <<2, 4>>)
        controls_both_sides == controls_left /\ controls_right
        actions == IF controls_center \/ controls_both_sides THEN 2 ELSE 1
        free_deploys == IF controls_left \/ controls_right THEN 1 ELSE 0
    IN  [rested EXCEPT
            !.current_player = next_player,
            !.players[next_player].actions_remaining = actions,
            !.free_deployments = free_deploys,
            !.turn_number = @ + 1,
            !.has_acted = FALSE,
            !.turn_count = @ + 1]

\* the number of units player_id has on the board
units_on_board(e, player_id) ==
    Cardinality({pos \in MultiPositions :
                    e.grid[pos] # None /\ e.grid[pos][1].owner = player_id})

\* all(self._controls_position(player_id, cp) for cp in control_points)
ControlsAll(e, player_id) ==
    \A i \in 1 .. Len(control_points) :
        MultiAgentEnv_controls_position(e, player_id, control_points[i])

\* the player with no unit on the board and no deployment left
NothingLeft(e, player_id) ==
    /\ units_on_board(e, player_id) = 0
    /\ e.players[player_id].deployments_remaining = 0

\* units + player['deployments_remaining']
total_resources(e, player_id) ==
    units_on_board(e, player_id) + e.players[player_id].deployments_remaining

_check_game_end(e) ==
    IF ControlsAll(e, 0) THEN [e EXCEPT !.done = TRUE, !.winner = Some(0)]
    ELSE IF ControlsAll(e, 1) THEN [e EXCEPT !.done = TRUE, !.winner = Some(1)]
    ELSE IF NothingLeft(e, 0) THEN [e EXCEPT !.done = TRUE, !.winner = Some(1)]
    ELSE IF NothingLeft(e, 1) THEN [e EXCEPT !.done = TRUE, !.winner = Some(0)]
    ELSE IF e.turn_number >= e.max_turns
         THEN [e EXCEPT !.done = TRUE, !.winner = None,
                        !.draw_reason = Some("turn_limit")]
    ELSE IF total_resources(e, 0) < 3 /\ total_resources(e, 1) < 3
         THEN [e EXCEPT !.done = TRUE, !.winner = None,
                        !.draw_reason = Some("low_resources")]
    ELSE e

\* the branch of step that decodes the action, and the instance it leaves
Decoded(e, action) ==
    IF action = action_end_turn
    THEN [action_type |-> "end_turn", env |-> MultiAgentEnv_end_turn(e)]
    ELSE IF action_deploy_start <= action /\ action <= action_deploy_end
    THEN LET action_offset == action - action_deploy_start
             unit_type == UNIT_TYPES[(action_offset \div 5) + 1]
             col == action_offset % 5
             deploy_row == IF e.current_player = 0 THEN 0 ELSE 4
         IN  [action_type |-> "deploy", env |-> _deploy_unit(e, unit_type, deploy_row, col)]
    ELSE IF action_move_start <= action /\ action <= action_move_end
    THEN LET action_offset == action - action_move_start
             source == source_of(action_offset \div 4)
             dir == directions_4[(action_offset % 4) + 1]
             move_range == IF e.grid[source] # None
                           THEN _get_move_range(e.grid[source][1].type) ELSE 1
             \* the furthest empty cell in the direction before the first
             \* occupied one
             free == {dist \in 1 .. move_range :
                        \A k \in 1 .. dist :
                            Along(source, dir, k) \in MultiPositions
                            => e.grid[Along(source, dir, k)] = None}
             reach == {dist \in free : Along(source, dir, dist) \in MultiPositions}
             target == IF reach = {} THEN source
                       ELSE Along(source, dir, CHOOSE dist \in reach :
                                                  \A other \in reach : other <= dist)
         IN  [action_type |-> "move", env |-> _move_unit(e, source, target)]
    ELSE IF action_rotate_start <= action /\ action <= action_rotate_end
    THEN LET action_offset == action - action_rotate_start
             source == source_of(action_offset \div 4)
             dir == directions_4[(action_offset % 4) + 1]
         IN  [action_type |-> "rotate",
              env |-> _rotate_units(e, source, Along(source, dir, 1))]
    ELSE IF action_attack_start <= action /\ action <= action_attack_end
    THEN LET action_offset == action - action_attack_start
             source == source_of(action_offset \div 16)
             dir_dist == action_offset % 16
             dir == directions_8[(dir_dist \div 2) + 1]
             dist == (dir_dist % 2) + 1
         IN  [action_type |-> "attack",
              env |-> _attack(e, source, Along(source, dir, dist))]
    ELSE [action_type |-> "unknown", env |-> e]

\* step(action): raises ValueError for an action the mask does not enable
\* and then changes nothing; otherwise the action, _check_game_end, and the
\* reward of the player who moved
MultiAgentEnv_step(e, action) ==
    IF action \notin _compute_action_mask(e)
    THEN [env |-> e, raised |-> TRUE, action_type |-> "unknown", reward |-> 0]
    ELSE LET mover == e.current_player
             after == _check_game_end(Decoded(e, action).env)
             reward == IF ~after.done THEN 0
                       ELSE IF after.winner = Some(mover) THEN reward_win
                       ELSE IF after.winner = Some(1 - mover) THEN reward_loss
                       ELSE IF after.draw_reason = Some("turn_limit")
                            THEN reward_draw_turn_limit
                       ELSE reward_draw_other
         IN  [env |-> after, raised |-> FALSE,
              action_type |-> Decoded(e, action).action_type, reward |-> reward]

\* MultiAgentConfig(): max_turns defaults to 250
MultiAgentConfig == [max_turns |-> 250]

\* the call reset(); the observation and the mask it returns are read off
\* the instance
MultiResetResult == [call |-> "MultiAgentEnv.reset"]

\* what step(action) returns of reward, done and info, with the action and
\* the player who moved; the observation and the mask it returns are read
\* off the instance
MultiStepResult(e, action) ==
    LET r == MultiAgentEnv_step(e, action)
    IN  [call |-> "MultiAgentEnv.step", action |-> action,
         player_id |-> e.current_player, action_type |-> r.action_type,
         raised |-> r.raised, reward |-> r.reward, done |-> r.env.done,
         winner |-> r.env.winner, draw_reason |-> r.env.draw_reason]

-----------------------------------------------------------------------------
\* no clone has been made
NoClone ==
    /\ twin = None
    /\ shared = {}

\* NovusXEnv() followed by the first reset(): the constructor leaves no
\* game state, and step raises until reset() has been called
Init ==
    /\ StartsAs(reset(Constructed))
    /\ result = ResetResult
    /\ NoClone
    /\ multi = MultiAgentEnv(MultiAgentConfig)

\* reset(): self.state and self.state_hash_counts are bound to new objects
Reset ==
    /\ Becomes(reset(Env))
    /\ result' = ResetResult
    /\ twin' = twin
    /\ shared' = {}
    /\ multi' = multi

\* self.training_mode = training
set_training_mode(e, training) == [e EXCEPT !.training_mode = training]

\* set_training_mode(training)
SetTrainingMode(training) ==
    /\ Becomes(set_training_mode(Env, training))
    /\ result' = [ResetResult EXCEPT !.call = "set_training_mode"]
    /\ twin' = twin
    /\ shared' = shared
    /\ multi' = multi

\* step(action, player_id)
Step(action, player_id) ==
    LET r == step(Env, action, player_id)
    IN  /\ Becomes(r.env)
        /\ result' = StepResult(r, action, player_id)
        /\ twin' = IF twin = None THEN None
                   ELSE Some(Seen(twin[1], shared, r.env))
        /\ shared' = shared
        /\ multi' = multi

\* twin = e.clone()
Clone ==
    /\ twin' = Some(clone(Env).env)
    /\ shared' = clone(Env).shared
    /\ result' = [ResetResult EXCEPT !.call = "clone"]
    /\ UNCHANGED gameVars
    /\ multi' = multi

\* twin.reset()
ResetTwin ==
    /\ twin # None
    /\ twin' = Some(reset(twin[1]))
    /\ shared' = {}
    /\ result' = [ResetResult EXCEPT !.call = "twin.reset"]
    /\ UNCHANGED gameVars
    /\ multi' = multi

\* twin.step(action, player_id)
StepTwin(action, player_id) ==
    /\ twin # None
    /\ LET r == step(twin[1], action, player_id)
       IN  /\ twin' = Some(r.env)
           /\ Becomes(Seen(Env, shared, r.env))
           /\ result' = [StepResult(r, action, player_id) EXCEPT !.call = "twin.step"]
           /\ shared' = shared
           /\ multi' = multi

\* What a caller gets from a sequence of calls (action, player_id) on the
\* environment e: the tuple each step returns (observation, reward, done,
\* and of info the winner, the error and the outcome), and the environment
\* the calls leave.
RECURSIVE Replay(_, _)
Replay(e, calls) ==
    IF calls = << >> THEN [returns |-> << >>, env |-> e]
    ELSE LET action    == Head(calls)[1]
             player_id == Head(calls)[2]
             r         == step(e, action, player_id)
             rest      == Replay(r.env, Tail(calls))
         IN  [returns |->
                 <<[observation |-> _get_observation(r.env, player_id),
                    reward |-> r.reward, done |-> r.done, winner |-> r.winner,
                    error |-> r.error, game_outcome |-> r.env.game_outcome,
                    draw_reason |-> r.env.draw_reason]>> \o rest.returns,
              env |-> rest.env]

-----------------------------------------------------------------------------
(* Specification Spec: both players play in the middle column.  The callers
   submit, for the player to move, a deploy of a unit of ColumnTypes into
   column 2, any move, attack or rotate between two cells of column 2 at
   most 2 rows apart, and END_TURN, and calls out of turn, until the turn
   number reaches MaxTurns. *)

MaxTurns == 6

ColumnTypes == {CAVALRY, ARCHER, SPEARMAN}

\* the pairs (source, target) of cells of column 2 at most 2 rows apart
ColumnPairs ==
    {x \in (Rows \X {2}) \X (Rows \X {2}) : abs(x[1][1] - x[2][1]) <= 2}

ColumnInputs ==
    {_encode_deploy(t, 2) : t \in ColumnTypes}
    \cup {_encode_move(x[1], x[2]) : x \in ColumnPairs}
    \cup {_encode_attack(x[1], x[2]) : x \in ColumnPairs}
    \cup {_encode_rotate(x[1], x[2]) : x \in ColumnPairs}
    \cup {ACTION_SPACE_SIZE - 1}

\* a call for the player whose turn it is not: step turns it down before
\* it looks at the action
OutOfTurnInputs == {_encode_deploy(SWORDSMAN, 2), ACTION_SPACE_SIZE - 1}

Next ==
    \/ /\ turn_number < MaxTurns
       /\ \E action \in ColumnInputs : Step(action, current_player)
    \/ /\ turn_number < MaxTurns
       /\ \E action \in OutOfTurnInputs : Step(action, 1 - current_player)
    \/ Reset

Spec == Init /\ [][Next]_vars

-----------------------------------------------------------------------------
(* Specification SpecSweep: player 0 brings cavalry to the control points.
   Player 0 submits deploys of Cavalry into columns 0, 2 and 4, the moves
   from the home row to the control point of the same column, and END_TURN;
   player 1 passes (END_TURN).
   Calls go on after a terminal outcome (step does not look at game_outcome),
   until the turn number reaches MaxSweepTurns. *)

MaxSweepTurns == 9

SweepCols == {0, 2, 4}

SweepInputs(player_id) ==
    IF player_id = 0
    THEN {_encode_deploy(CAVALRY, c) : c \in SweepCols}
         \cup {_encode_move(<<0, c>>, <<2, c>>) : c \in SweepCols}
         \cup {ACTION_SPACE_SIZE - 1}
    ELSE {ACTION_SPACE_SIZE - 1}

NextSweep ==
    \/ /\ turn_number < MaxSweepTurns
       /\ \E action \in SweepInputs(current_player) : Step(action, current_player)
    \/ Reset

SpecSweep == Init /\ [][NextSweep]_vars

-----------------------------------------------------------------------------
(* Specification SpecLong: a long game in the middle column.  Player 0
   submits a deploy of a Swordsman into column 2 and END_TURN; player 1
   submits a deploy of an Archer into column 2, its advance to the centre,
   the ranged attack from the centre on player 0's home cell, and END_TURN;
   until the turn number reaches MaxLongTurns. *)

MaxLongTurns == 13

LongInputs(player_id) ==
    IF player_id = 0
    THEN {_encode_deploy(SWORDSMAN, 2), ACTION_SPACE_SIZE - 1}
    ELSE {_encode_deploy(ARCHER, 2),
          _encode_move(<<4, 2>>, <<3, 2>>), _encode_move(<<3, 2>>, <<2, 2>>),
          _encode_attack(<<2, 2>>, <<0, 2>>), ACTION_SPACE_SIZE - 1}

NextLong ==
    \/ /\ turn_number < MaxLongTurns
       /\ \E action \in LongInputs(current_player) : Step(action, current_player)
    \/ Reset

SpecLong == Init /\ [][NextLong]_vars

-----------------------------------------------------------------------------
(* Specification SpecLate: play goes on long after a sweep.  The engine has
   taken the calls of Opening, by which player 0 brings cavalry to the three
   control points and wins.  The two players then pass (END_TURN, which step
   applies: it does not look at game_outcome) until the turn number reaches
   PassUntilTurn, when neither a capture nor a death has happened for
   NO_PROGRESS_TURN_LIMIT turns.  From there player 0 submits moves of its
   cavalry off and onto the control points and END_TURN, player 1 a deploy
   of a Swordsman into column 2 and END_TURN, until the turn number reaches
   MaxLateTurns. *)

PassUntilTurn == 110

MaxLateTurns == 115

Opening ==
    <<_encode_deploy(CAVALRY, 2), ACTION_SPACE_SIZE - 1,
      _encode_move(<<0, 2>>, <<2, 2>>), ACTION_SPACE_SIZE - 1,
      _encode_deploy(CAVALRY, 0), _encode_deploy(CAVALRY, 4),
      ACTION_SPACE_SIZE - 1,
      _encode_move(<<0, 0>>, <<2, 0>>), _encode_move(<<0, 4>>, <<2, 4>>)>>

\* what step returns for the n-th call of Opening, each call made by the
\* player to move on the environment the call before left
RECURSIVE Opened(_)
Opened(n) ==
    LET e == IF n = 1 THEN reset(Constructed) ELSE Opened(n - 1).env
    IN  step(e, Opening[n], e.current_player)

InitLate ==
    LET r == Opened(Len(Opening))
    IN  /\ StartsAs(r.env)
        /\ result = StepResult(r, Opening[Len(Opening)], 0)
        /\ NoClone
        /\ multi = MultiAgentEnv(MultiAgentConfig)

LateInputs(player_id) ==
    IF player_id = 0
    THEN {_encode_move(<<2, c>>, <<1, c>>) : c \in SweepCols}
         \cup {_encode_move(<<1, c>>, <<2, c>>) : c \in SweepCols}
         \cup {ACTION_SPACE_SIZE - 1}
    ELSE {_encode_deploy(SWORDSMAN, 2), ACTION_SPACE_SIZE - 1}

NextLate ==
    \/ /\ turn_number < PassUntilTurn
       /\ Step(ACTION_SPACE_SIZE - 1, current_player)
    \/ /\ turn_number >= PassUntilTurn
       /\ turn_number < MaxLateTurns
       /\ \E action \in LateInputs(current_player) : Step(action, current_player)

SpecLate == InitLate /\ [][NextLate]_vars

-----------------------------------------------------------------------------
(* Specification SpecDraw: a game that runs into the draw conditions.  The
   two players pass (END_TURN) from reset() until the turn number reaches
   DrawPassUntil; from there player 0 also submits a deploy of Cavalry into
   column 2 and its move to the centre control point, and player 1 a deploy
   of an Archer into column 2 and its ranged attack on the centre, until the
   turn number reaches MaxDrawTurns.  All along the callers also submit calls that step
   turns down: END_TURN out of turn, and (while nothing stands on the home
   cell) the move from player 0's home cell. *)

DrawPassUntil == 994

MaxDrawTurns == 1003

DrawInputs(player_id) ==
    IF player_id = 0
    THEN {_encode_deploy(CAVALRY, 2), _encode_move(<<0, 2>>, <<2, 2>>),
          ACTION_SPACE_SIZE - 1}
    ELSE {_encode_deploy(ARCHER, 2), _encode_attack(<<4, 2>>, <<2, 2>>),
          ACTION_SPACE_SIZE - 1}

\* the calls (action, player_id) submitted in the current state: the pass
\* and the move step turns down, the END_TURN out of turn, and the inputs of
\* the last turns
DrawCalls ==
    (IF turn_number < DrawPassUntil
     THEN {<<ACTION_SPACE_SIZE - 1, current_player>>,
           <<_encode_move(<<0, 2>>, <<2, 2>>), current_player>>}
     ELSE {})
    \cup (IF turn_number < MaxDrawTurns
          THEN {<<ACTION_SPACE_SIZE - 1, 1 - current_player>>}
          ELSE {})
    \cup (IF turn_number >= DrawPassUntil /\ turn_number < MaxDrawTurns
          THEN {<<action, current_player>> : action \in DrawInputs(current_player)}
          ELSE {})

NextDraw ==
    \/ \E call \in DrawCalls : Step(call[1], call[2])
    \/ Reset

SpecDraw == Init /\ [][NextDraw]_vars

-----------------------------------------------------------------------------
(* Specification SpecCodec: the whole deploy range of the action space.  The
   player to move submits any index of the deploy range that decodes to
   column 2, and END_TURN, until the turn number reaches MaxCodecTurns. *)

MaxCodecTurns == 3

CodecInputs ==
    {action \in 0 .. (DEPLOY_ACTIONS - 1) : _parse_action(action).params.col = 2}
    \cup {ACTION_SPACE_SIZE - 1}

NextCodec ==
    \/ /\ turn_number < MaxCodecTurns
       /\ \E action \in CodecInputs : Step(action, current_player)
    \/ Reset

SpecCodec == Init /\ [][NextCodec]_vars

-----------------------------------------------------------------------------
(* Specification SpecClone: an engine and its clone.  The caller plays the
   inputs of DrawInputs on the engine, clones it at any moment (a new clone
   replaces the one before), plays the same inputs on the clone, and resets
   either, while the turn number of the instance called is below
   MaxCloneTurns. *)

MaxCloneTurns == 6

NextClone ==
    \/ /\ turn_number < MaxCloneTurns
       /\ \E action \in DrawInputs(current_player) : Step(action, current_player)
    \/ Reset
    \/ Clone
    \/ /\ twin # None
       /\ twin[1].turn_number < MaxCloneTurns
       /\ \E action \in DrawInputs(twin[1].current_player) :
             StepTwin(action, twin[1].current_player)
    \/ ResetTwin

SpecClone == Init /\ [][NextClone]_vars

-----------------------------------------------------------------------------
(* Specification SpecFight: the two sides meet in columns 2 and 3.  The
   game opens with a face-off: in turn 1 player 0 deploys a unit of any type
   into column 2, in turn 2 player 1 does the same, and in turns 3 and 4
   each walks its unit one row forward, so that they stand two cells apart
   with an empty cell between.  From there player 0 may walk its unit on to
   the centre, player 1 may deploy units of SupportTypes into columns 2 and
   3 and walk the one of column 3 forward, and either attacks from a cell of
   FightCells to another, or ends the turn, until the turn number reaches
   MaxFightTurns. *)

MaxFightTurns == 9

FightTypes == {SWORDSMAN, SHIELDMAN, AXEMAN, CAVALRY, ARCHER, SPEARMAN}

SupportTypes == {SHIELDMAN, ARCHER}

\* the cells the units come to stand on
FightCells == {<<1, 2>>, <<2, 2>>, <<3, 2>>, <<3, 3>>, <<4, 2>>}

\* the actions submitted once the face-off stands
FightInputs(player_id) ==
    (IF player_id = 0
     THEN {_encode_move(<<1, 2>>, <<2, 2>>)}
     ELSE {_encode_deploy(t, c) : t \in SupportTypes, c \in {2, 3}}
          \cup {_encode_move(<<4, 3>>, <<3, 3>>)})
    \cup {_encode_attack(x[1], x[2]) : x \in FightCells \X FightCells}
    \cup {ACTION_SPACE_SIZE - 1}

\* the actions submitted for the player to move in the current state
FightCalls ==
    IF turn_number <= 2 THEN {_encode_deploy(t, 2) : t \in FightTypes}
    ELSE IF turn_number = 3 THEN {_encode_move(<<0, 2>>, <<1, 2>>)}
    ELSE IF turn_number = 4 THEN {_encode_move(<<4, 2>>, <<3, 2>>)}
    ELSE IF turn_number < MaxFightTurns THEN FightInputs(current_player)
    ELSE {}

NextFight == \E action \in FightCalls : Step(action, current_player)

SpecFight == Init /\ [][NextFight]_vars

-----------------------------------------------------------------------------
(* Specification SpecSwap: player 0 lines units up and swaps them.  Player 0
   deploys units of SwapTypes into columns 1, 2 and 3, walks the one of
   column 2 forward to the centre, rotates from any cell of SwapCells to any
   other, and ends the turn; player 1 passes, until the turn number reaches
   MaxSwapTurns. *)

MaxSwapTurns == 10

SwapTypes == {SWORDSMAN, CAVALRY}

SwapCells == {<<0, 1>>, <<0, 2>>, <<0, 3>>, <<1, 2>>, <<2, 2>>}

SwapInputs(player_id) ==
    IF player_id = 0
    THEN {_encode_deploy(t, c) : t \in SwapTypes, c \in {1, 2, 3}}
         \cup {_encode_move(<<0, 2>>, <<1, 2>>), _encode_move(<<1, 2>>, <<2, 2>>)}
         \cup {_encode_rotate(x[1], x[2]) : x \in SwapCells \X SwapCells}
         \cup {ACTION_SPACE_SIZE - 1}
    ELSE {ACTION_SPACE_SIZE - 1}

NextSwap ==
    /\ turn_number < MaxSwapTurns
    /\ \E action \in SwapInputs(current_player) : Step(action, current_player)

SpecSwap == Init /\ [][NextSwap]_vars

-----------------------------------------------------------------------------
(* Specification SpecMuster: player 0 spends all its deployments.  Player 0
   sends a Cavalry to the centre control point (which gives it 2 actions a
   turn), then fills its home row, walks the units one row forward and
   deploys again, as Muster lists turn by turn, until its 10 deployments are
   spent; player 1 deploys one Swordsman and passes.  In a turn with two
   actions the two are submitted in either order, and a call submitted again
   is turned down; the callers also submit END_TURN out of turn.  Calls are
   made until the turn number reaches MaxMusterTurns. *)

MaxMusterTurns == 21

\* the types player 0 may choose from in its first two deploys into the row
MusterTypes == {SWORDSMAN, ARCHER}

\* Muster[k]: the actions player 0 submits in its k-th turn (turn 2k - 1)
Muster ==
    <<{_encode_deploy(CAVALRY, 2)},
      {_encode_move(<<0, 2>>, <<2, 2>>)},
      {_encode_deploy(t, c) : t \in MusterTypes, c \in {0, 1}},
      {_encode_deploy(SWORDSMAN, 2), _encode_deploy(SHIELDMAN, 3)},
      {_encode_deploy(SHIELDMAN, 4), _encode_move(<<0, 0>>, <<1, 0>>)},
      {_encode_move(<<0, 1>>, <<1, 1>>), _encode_deploy(SHIELDMAN, 0)},
      {_encode_deploy(AXEMAN, 1), _encode_move(<<0, 2>>, <<1, 2>>)},
      {_encode_deploy(AXEMAN, 2), _encode_move(<<0, 3>>, <<1, 3>>)},
      {_encode_deploy(AXEMAN, 3), _encode_move(<<0, 4>>, <<1, 4>>)},
      {_encode_deploy(SPEARMAN, 4), ACTION_SPACE_SIZE - 1}>>

\* the calls (action, player_id) submitted in the current state
MusterCalls ==
    IF turn_number >= MaxMusterTurns THEN {}
    ELSE {<<ACTION_SPACE_SIZE - 1, 1 - current_player>>}
         \cup (IF current_player = 1
               THEN {<<IF turn_number = 2 THEN _encode_deploy(SWORDSMAN, 2)
                       ELSE ACTION_SPACE_SIZE - 1, 1>>}
               ELSE IF (turn_number + 1) \div 2 \in DOMAIN Muster
               THEN {<<action, 0>> : action \in Muster[(turn_number + 1) \div 2]}
               ELSE {<<ACTION_SPACE_SIZE - 1, 0>>})

NextMuster == \E call \in MusterCalls : Step(call[1], call[2])

SpecMuster == Init /\ [][NextMuster]_vars

-----------------------------------------------------------------------------
(* Specification SpecMarch: player 0 moves units about its corner of the
   board.  Player 0 deploys units of MarchTypes into columns 1 and 2, moves
   from any cell of MarchCells to any other (the same cell included), and
   ends the turn; player 1 passes, until the turn number reaches
   MaxMarchTurns. *)

MaxMarchTurns == 8

MarchTypes == {SWORDSMAN, CAVALRY}

MarchCells == {<<0, 1>>, <<0, 2>>, <<0, 3>>, <<1, 2>>, <<2, 2>>}

MarchInputs(player_id) ==
    IF player_id = 0
    THEN {_encode_deploy(t, c) : t \in MarchTypes, c \in {1, 2}}
         \cup {_encode_move(x[1], x[2]) : x \in MarchCells \X MarchCells}
         \cup {ACTION_SPACE_SIZE - 1}
    ELSE {ACTION_SPACE_SIZE - 1}

NextMarch ==
    /\ turn_number < MaxMarchTurns
    /\ \E action \in MarchInputs(current_player) : Step(action, current_player)

SpecMarch == Init /\ [][NextMarch]_vars

-----------------------------------------------------------------------------
(* Specification SpecReward: the game of SpecDraw in both modes.  The callers
   submit the calls of DrawCalls, and set_training_mode(False) or
   set_training_mode(True) at any time. *)

NextReward ==
    \/ \E call \in DrawCalls : Step(call[1], call[2])
    \/ \E training \in BOOLEAN : SetTrainingMode(training)

SpecReward == Init /\ [][NextReward]_vars

-----------------------------------------------------------------------------
(* Specification SpecEncode: the codec on every structured action.  On the
   engine after reset() the caller encodes one structured action (a deploy
   of a type at a column, a move, attack or rotate from a cell to a cell, or
   END_TURN) and then decodes the index it was given; result holds the
   structured action, the index and the decoded action. *)

\* the structured actions, in the form _parse_action returns them
StructuredActions ==
    {[action_type |-> "DEPLOY", params |-> [unit_type |-> t, col |-> c]] :
        t \in SWORDSMAN..SPEARMAN, c \in Cols}
    \cup {[action_type |-> kind, params |-> [source |-> st[1], target |-> st[2]]] :
            kind \in {"MOVE", "ATTACK", "ROTATE"}, st \in Positions \X Positions}
    \cup {[action_type |-> "END_TURN", params |-> [none |-> TRUE]]}

\* index = self._encode_<kind>(...)
Encode(structured) ==
    /\ result.call = "reset"
    /\ result' = [call |-> "encode", structured |-> structured,
                  action |-> Some(EncodeAction(structured))]
    /\ UNCHANGED <<gameVars, twin, shared, multi>>

\* self._parse_action(index)
Decode ==
    /\ result.call = "encode"
    /\ result' = [call |-> "decode", structured |-> result.structured,
                  action |-> result.action,
                  decoded |-> _parse_action(result.action[1])]
    /\ UNCHANGED <<gameVars, twin, shared, multi>>

NextEncode ==
    \/ \E structured \in StructuredActions : Encode(structured)
    \/ Decode

SpecEncode == Init /\ [][NextEncode]_vars

-----------------------------------------------------------------------------
(* Indices outside the action space: both players submit, besides deploys of
   a Swordsman and END_TURN, indices below 0 and from ACTION_SPACE_SIZE on,
   until turn MaxRangeTurns. *)

MaxRangeTurns == 5

\* indices outside [0, ACTION_SPACE_SIZE)
RangeIndices ==
    {-DEPLOY_ACTIONS, -26, -25, -1, ACTION_SPACE_SIZE, ACTION_SPACE_SIZE + 1}

RangeInputs ==
    RangeIndices
    \cup {_encode_deploy(SWORDSMAN, c) : c \in {0, 2}}
    \cup {ACTION_SPACE_SIZE - 1}

NextRange ==
    /\ turn_number < MaxRangeTurns
    /\ \E action \in RangeInputs : Step(action, current_player)

SpecRange == Init /\ [][NextRange]_vars

-----------------------------------------------------------------------------
(* Specification SpecMulti: games of MultiAgentEnv as play_self_play_game
   runs them.  The environment is built with max_turns = MaxMultiTurns; the
   loop submits an action the mask enables while the game is not done, and
   the next game starts with reset().  Player 0 deploys units of
   MultiTypes into the columns of the control points, walks them down the
   board, and rotates and attacks as the mask allows; player 1 deploys
   archers into MultiArcherCols, attacks as the mask allows, or ends its
   turn. *)

MaxMultiTurns == 10

MultiTypes == {"swordsman", "cavalry"}

MultiCols == {0, 2, 4}

MultiArcherCols == {3, 4}

\* action_deploy_start + unit_idx * 5 + col
DeployIndex(unit_type, col) ==
    action_deploy_start
    + ((CHOOSE i \in 1 .. Len(UNIT_TYPES) : UNIT_TYPES[i] = unit_type) - 1) * 5 + col

\* the actions the agents choose among
MultiInputs(player_id) ==
    (IF player_id = 0
     THEN {DeployIndex(t, c) : t \in MultiTypes, c \in MultiCols}
          \cup {action_move_start + source_idx * 4 + 2 :
                  source_idx \in 0 .. (MULTI_GRID_SIZE * MULTI_GRID_SIZE - 1)}
          \cup (action_rotate_start .. action_rotate_end)
     ELSE {DeployIndex("archer", c) : c \in MultiArcherCols})
    \cup (action_attack_start .. action_attack_end)
    \cup {action_end_turn}

InitMulti ==
    /\ StartsAs(reset(Constructed))
    /\ NoClone
    /\ multi = MultiAgentEnv([max_turns |-> MaxMultiTurns])
    /\ result = MultiResetResult

\* env.reset()
MultiReset ==
    /\ multi' = MultiAgentEnv_reset(multi)
    /\ result' = MultiResetResult
    /\ UNCHANGED <<gameVars, twin, shared>>

\* env.step(action)
MultiStep(action) ==
    /\ multi' = MultiAgentEnv_step(multi, action).env
    /\ result' = MultiStepResult(multi, action)
    /\ UNCHANGED <<gameVars, twin, shared>>

NextMulti ==
    \/ /\ ~multi.done
       /\ \E action \in _compute_action_mask(multi) \cap MultiInputs(multi.current_player) :
              MultiStep(action)
    \/ /\ multi.done
       /\ MultiReset

SpecMulti == InitMulti /\ [][NextMulti]_vars

-----------------------------------------------------------------------------
(* Properties *)

\* the mask of the player to move, and whether step would apply index i
CurrentMask == get_valid_actions_mask(Env, current_player)

Accepted(i) == step(Env, i, current_player).valid

\* the last call was a step that applied an action / that was turned down
Applied == result.call = "step" /\ result.valid

Rejected == result.call = "step" /\ ~result.valid

AppliedKind(kind) == Applied /\ result.action_type = Some(kind)

\* C1 (mask soundness): in every reachable state, every index the mask of
\* the player to move marks with 1 is applied by step (step does not turn it
\* down).
MaskSound == \A i \in CurrentMask : Accepted(i)

\* after an applied action the mask of the player to move offers a deploy,
\* a move and an attack
MaskSoundWitness ==
    /\ Applied
    /\ \E i \in CurrentMask : _parse_action(i).action_type = "DEPLOY"
    /\ \E i \in CurrentMask : _parse_action(i).action_type = "MOVE"
    /\ \E i \in CurrentMask : _parse_action(i).action_type = "ATTACK"

\* C2 (rejection): a step that is turned down (out of turn, or an illegal
\* action) returns the invalid-action penalty with done = false and changes
\* nothing of the game state.
RejectedStepChangesNothing ==
    [][(result'.call = "step" /\ ~result'.valid)
          => /\ UNCHANGED gameVars
             /\ result'.reward = rewards.invalid_action_penalty
             /\ ~result'.done]_vars

\* an attack beyond the attacker's range has been turned down
RejectedStepWitness ==
    /\ Rejected
    /\ result.error = "Invalid attack"
    /\ _count_units(Env, 0) > 0 /\ _count_units(Env, 1) > 0

\* C3 (mask completeness): in every reachable state, for every index i of the
\* action space, the mask of the player to move marks i iff step would apply i.
MaskComplete ==
    \A i \in 0 .. (ACTION_SPACE_SIZE - 1) : (i \in CurrentMask) <=> Accepted(i)

\* C4 (terminal outcomes are absorbing): once game_outcome is a win or a
\* draw, no step changes the board, the players' resources, the turn, the
\* outcome or the draw reason.
OutcomeAbsorbing ==
    [][(game_outcome # "IN_PROGRESS" /\ result'.call = "step")
          => UNCHANGED <<grid, players, current_player, turn_number,
                         game_outcome, draw_reason>>]_vars

\* C5 (deployment cap): no player's deployment count of any unit type ever
\* exceeds 3.
DeploymentCap ==
    \A p \in Players : \A t \in DOMAIN players[p].deployment_counts :
        players[p].deployment_counts[t] <= MAX_DEPLOYMENTS_PER_TYPE

\* a fourth deploy of a type has been turned down for the cap alone
DeploymentCapWitness ==
    /\ Rejected
    /\ result.error = "Max 3 of type already deployed"
    /\ \E p \in Players : players[p].deployment_counts[CAVALRY] = 3

\* C6 (turn invariant): actions_remaining is never negative, and an applied
\* deploy, move, attack or rotate ends the turn (the player to move and the
\* turn number change) exactly when it leaves the acting player 0 actions.
TurnInvariant ==
    /\ [](\A p \in Players : players[p].actions_remaining >= 0)
    /\ [][(result'.call = "step" /\ result'.valid
              /\ result'.action_type # Some("END_TURN"))
            => /\ (current_player' # current_player)
                    <=> (players'[current_player].actions_remaining = 0)
               /\ turn_number' =
                    IF players'[current_player].actions_remaining = 0
                    THEN turn_number + 1 ELSE turn_number]_vars

\* an attack has been applied that left its player an action: the turn goes on
TurnInvariantWitness ==
    /\ AppliedKind("ATTACK")
    /\ result.player_id = Some(current_player)
    /\ players[current_player].actions_remaining = 1

\* C7 (combat resolution): for every applied attack, with the table of its
\* distance (melee at distance 1, ranged otherwise), the defender is removed
\* iff the attacker's type defeats the defender's and the attacker is removed
\* iff the defender's type defeats the attacker's.
CombatResolution ==
    [][(result'.call = "step" /\ result'.valid
           /\ result'.action_type = Some("ATTACK"))
         => LET params   == _parse_action(result'.action[1]).params
                source   == params.source
                target   == params.target
                attacker == grid[source[1]][source[2]][1]
                defender == grid[target[1]][target[2]][1]
                beats    == IF abs(source[1] - target[1])
                                + abs(source[2] - target[2]) = 1
                            THEN MELEE_BEATS ELSE RANGED_BEATS
                attackerWins ==
                    defender.unit_type \in DictGet(beats, attacker.unit_type, {})
                defenderWins ==
                    attacker.unit_type \in DictGet(beats, defender.unit_type, {})
            IN  /\ (grid'[target[1]][target[2]] = None) <=> attackerWins
                /\ (grid'[source[1]][source[2]] = None) <=> defenderWins]_vars

\* C8 (turn economy): at every end of a turn the incoming player gets 2
\* actions if it holds the centre control point or both outer control
\* points, and 1 otherwise.
TurnEconomy ==
    [][(result'.call = "step" /\ current_player' # current_player)
         => players'[current_player'].actions_remaining =
               IF \/ _controls_position(Env', current_player', <<2, 2>>)
                  \/ /\ _controls_position(Env', current_player', <<2, 0>>)
                     /\ _controls_position(Env', current_player', <<2, 4>>)
               THEN 2 ELSE 1]_vars

\* C9 (win precedence): an applied action after which a player holds all
\* three control points returns done with that player as the winner and the
\* win as the outcome, also when a draw condition is met, and leaves the
\* state-hash table and the draw reason as they were.
WinPrecedence ==
    [][(result'.call = "step" /\ result'.valid)
         => \A p \in Players :
               _count_control_points(Env', p) = 3
                 => /\ result'.done
                    /\ result'.winner = Some(p)
                    /\ result'.reward = IF result'.player_id = Some(p)
                                        THEN rewards.win ELSE rewards.lose
                    /\ game_outcome' = IF p = 0 THEN "PLAYER_0_WIN"
                                                ELSE "PLAYER_1_WIN"
                    /\ state_hash_counts' = state_hash_counts
                    /\ draw_reason' = draw_reason]_vars

\* neither a capture nor a death in the last NO_PROGRESS_TURN_LIMIT turns:
\* the no-progress draw condition is met
NoProgressMet ==
    /\ turns_since_last_capture >= NO_PROGRESS_TURN_LIMIT
    /\ turns_since_last_unit_death >= NO_PROGRESS_TURN_LIMIT

\* an action has been applied with player 0 on the three control points
\* and the no-progress draw condition met: player 0 is reported the winner
WinPrecedenceWitness ==
    /\ Applied
    /\ _count_control_points(Env, 0) = 3
    /\ result.winner = Some(0)
    /\ NoProgressMet

Eliminated(p) ==
    /\ turn_number > 10
    /\ _count_units(Env, 1 - p) = 0
    /\ _count_units(Env, p) >= 1

\* C10 (elimination): after an applied action, player p is reported the
\* winner without holding the three control points exactly when the turn
\* number is above 10, the opponent has no unit and p has one; up to turn 10
\* no game ends by elimination.
Elimination ==
    Applied =>
        \A p \in Players :
            /\ Eliminated(p) => (result.done /\ result.winner = Some(p))
            /\ (result.winner = Some(p) /\ _count_control_points(Env, p) # 3)
                  => Eliminated(p)
            /\ (turn_number <= 10 /\ _count_control_points(Env, p) # 3)
                  => result.winner # Some(p)

\* player 1's archer has just shot player 0's last unit after turn 10
EliminationWitness ==
    /\ AppliedKind("ATTACK")
    /\ result.winner = Some(1)
    /\ Eliminated(1)

\* how often the state the last call left has been counted in the table
TimesCounted == DictGet(state_hash_counts, _compute_state_hash(Env), 0)

\* the last call returned a draw for this reason
DrawReported(reason) ==
    /\ result.done
    /\ result.winner = None
    /\ game_outcome = "DRAW"
    /\ draw_reason = reason

\* C11 (draw priority): an applied action without a winner is reported as a
\* MAX_TURNS draw when the turn number is at least 1000, otherwise as a
\* REPEATED_STATE draw when the state has been counted 10 times, otherwise
\* as a NO_PROGRESS draw when both no-progress counters are at least 100,
\* and otherwise is not done.
DrawPriority ==
    [][(result'.call = "step" /\ result'.valid /\ result'.winner = None)
         => IF turn_number' >= MAX_TURN_LIMIT THEN DrawReported("MAX_TURNS")'
            ELSE IF TimesCounted' >= REPEATED_STATE_LIMIT
            THEN DrawReported("REPEATED_STATE")'
            ELSE IF NoProgressMet' THEN DrawReported("NO_PROGRESS")'
            ELSE ~result'.done]_vars

\* a MAX_TURNS draw has been reported for a state that also meets the
\* no-progress condition and has been counted 10 times
DrawPriorityWitness ==
    /\ Applied
    /\ DrawReported("MAX_TURNS")
    /\ NoProgressMet
    /\ TimesCounted >= REPEATED_STATE_LIMIT

NoProgressDraw ==
    [][/\ (result'.call = "step" /\ ~result'.valid)
            => UNCHANGED <<turns_since_last_capture, turns_since_last_unit_death>>
       /\ (result'.call = "step" /\ result'.valid)
            => LET ended   == IF turn_number' # turn_number THEN 1 ELSE 0
                   changed == \E i \in DOMAIN CONTROL_POINTS :
                                 _get_control_owner(Env', CONTROL_POINTS[i])
                                     # _get_control_owner(Env, CONTROL_POINTS[i])
                   died    == _count_units(Env', 0) + _count_units(Env', 1)
                                 < _count_units(Env, 0) + _count_units(Env, 1)
               IN  /\ turn_number' \in {turn_number, turn_number + 1}
                   /\ turns_since_last_capture' =
                         IF changed THEN 0 ELSE turns_since_last_capture + ended
                   /\ turns_since_last_unit_death' =
                         IF died THEN 0 ELSE turns_since_last_unit_death + ended
       /\ result'.call = "reset"
            => turns_since_last_capture' = 0 /\ turns_since_last_unit_death' = 0
       /\ DrawReported("NO_PROGRESS")' => NoProgressMet']_vars

\* an action has been applied after a capture, with no death for 100 turns:
\* one counter alone is at 100 and the step is not a draw
NoProgressDrawWitness ==
    /\ Applied
    /\ ~result.done
    /\ turns_since_last_unit_death >= NO_PROGRESS_TURN_LIMIT
    /\ turns_since_last_capture < NO_PROGRESS_TURN_LIMIT

\* C14 (bounded game length): an applied action raises the turn number by
\* at most 1; one that does not end the turn takes the acting player from 2
\* actions to 1, so that a turn holds at most 2 applied actions; and an
\* applied action that leaves the turn number at 1000 or more returns done,
\* with a winner or as a MAX_TURNS draw.
BoundedGame ==
    [][(result'.call = "step" /\ result'.valid)
         => /\ turn_number' \in {turn_number, turn_number + 1}
            /\ turn_number' = turn_number
                 => /\ current_player' = current_player
                    /\ players[current_player].actions_remaining = 2
                    /\ players'[current_player].actions_remaining = 1
            /\ turn_number' >= MAX_TURN_LIMIT
                 => /\ result'.done
                    /\ result'.winner # None \/ DrawReported("MAX_TURNS")']_vars

\* the action that brought the turn number to 1000 has returned a MAX_TURNS
\* draw, with units of both players on the board
BoundedGameWitness ==
    /\ Applied
    /\ turn_number = MAX_TURN_LIMIT
    /\ DrawReported("MAX_TURNS")
    /\ _count_units(Env, 0) > 0 /\ _count_units(Env, 1) > 0

\* C15 (codec bijection): encoding the decoded form of an applied action
\* index gives the index back.
CodecRoundTrip ==
    Applied => EncodeAction(_parse_action(result.action[1])) = result.action[1]

\* the sequences of two calls replayed on a reset engine
ReplayCalls ==
    LET Calls == {<<_encode_deploy(CAVALRY, 2), 0>>, <<ACTION_SPACE_SIZE - 1, 0>>,
                  <<_encode_deploy(ARCHER, 2), 1>>, <<ACTION_SPACE_SIZE - 1, 1>>}
    IN  {<<a, b>> : a \in Calls, b \in Calls}

Scrubbed(e) ==
    [grid |-> [r \in Rows |-> [c \in Cols |->
                  IF e.grid[r][c] = None THEN None
                  ELSE Some([id              |-> << >>,
                             owner_id        |-> e.grid[r][c][1].owner_id,
                             unit_type       |-> e.grid[r][c][1].unit_type,
                             position        |-> <<r, c>>,
                             acted_this_turn |-> FALSE])]],
     current_player |-> e.current_player,
     turn_number |-> 0,
     players |-> [p \in Players |->
                    [id |-> p, actions_remaining |-> 0,
                     deployments_remaining |-> 0,
                     deployment_counts |-> initial_deployment_counts]],
     free_deployments_remaining |-> 0,
     has_acted_this_turn |-> FALSE,
     _unit_counter |-> 0,
     state_hash_counts |-> << >>,
     turns_since_last_capture |-> 0,
     turns_since_last_unit_death |-> 0,
     game_outcome |-> "IN_PROGRESS",
     draw_reason |-> "NONE",
     training_mode |-> TRUE]

\* C17 (state-hash stability): the hash of every reachable state is the hash
\* of the state with its unit ids, acted flags, players' resources, turn
\* number, counters and history wiped: states that agree on the cells'
\* (type, owner), the control points' owners and the player to move hash
\* identically.
StateHashStable == _compute_state_hash(Env) = _compute_state_hash(Scrubbed(Env))

\* a state with units on the board has been produced a second time, at a
\* later turn and after other actions, and counted under the same hash
StateHashStableWitness ==
    /\ Applied
    /\ TimesCounted >= 2
    /\ _count_units(Env, 0) + _count_units(Env, 1) > 0
    /\ Env # Scrubbed(Env)

\* C18 (clone isolation): once twin = e.clone() exists, a call of step or
\* reset on the clone leaves every field of e as it was (board, units,
\* player records, turn number, counters, table of state counts, outcome),
\* and a call of step or reset on e leaves every field of the clone as it
\* was.
CloneIsolation ==
    [][/\ result'.call \in {"twin.step", "twin.reset"} => Env' = Env
       /\ result'.call \in {"step", "reset"} => twin' = twin]_vars

\* the engine has played, was cloned, and an action applied on the clone has
\* taken the clone's board and table of state counts away from the engine's
CloneIsolationWitness ==
    /\ twin # None
    /\ result.call = "twin.step"
    /\ result.valid
    /\ _unit_counter > 0
    /\ twin[1].grid # grid
    /\ twin[1].state_hash_counts # state_hash_counts
    /\ twin[1].turn_number # turn_number

\* the distance of the rules: diagonal adjacency counts as 2
RuleDistance(a, b) ==
    IF abs(a[1] - b[1]) = 1 /\ abs(a[2] - b[2]) = 1 THEN 2
    ELSE abs(a[1] - b[1]) + abs(a[2] - b[2])

\* one of the two types is in the other's list of the table
EitherDefeats(table, t1, t2) ==
    \/ t1 \in DOMAIN table /\ t2 \in table[t1]
    \/ t2 \in DOMAIN table /\ t1 \in table[t2]

\* the attack from source to target is legal for the player to move
AttackLegal(source, target) ==
    /\ At(Env, source) # None
    /\ At(Env, target) # None
    /\ LET attacker == At(Env, source)[1]
           defender == At(Env, target)[1]
           reach    == IF attacker.unit_type \in {ARCHER, SPEARMAN} THEN 2 ELSE 1
           dist     == RuleDistance(source, target)
       IN  /\ attacker.owner_id = current_player
           /\ ~attacker.acted_this_turn
           /\ defender.owner_id # current_player
           /\ dist <= reach
           /\ dist = 1 =>
                  EitherDefeats(MELEE_BEATS, attacker.unit_type, defender.unit_type)
           /\ dist = 2 =>
                  /\ defender.unit_type # SHIELDMAN
                  /\ EitherDefeats(RANGED_BEATS, attacker.unit_type, defender.unit_type)
                  /\ (source[1] = target[1] \/ source[2] = target[2]) =>
                         At(Env, <<(source[1] + target[1]) \div 2,
                                   (source[2] + target[2]) \div 2>>) = None

\* C19 (attack legality): in every reachable state, for every pair of cells,
\* step applies the attack from source to target for the player to move iff
\* the source holds a unit of that player that has not acted, the target an
\* enemy unit, the distance is within the attacker's range, at distance 1
\* one of the two defeats the other in the melee table, and at distance 2
\* the defender is no Shieldman, one side of the ranged table lists the
\* other, and on a row or column the cell between is empty.
AttackLegality ==
    \A source \in Positions : \A target \in Positions :
        Accepted(_encode_attack(source, target)) <=> AttackLegal(source, target)

\* an attack has just been turned down as invalid where, for the player to
\* move, an Archer or Spearman that has not acted stands two cells from an
\* enemy (no Shieldman) on one column with a unit between them, which step
\* turns down, while step would apply another attack of that player
AttackLegalityWitness ==
    /\ Rejected
    /\ result.error = "Invalid attack"
    /\ \E source \in Positions : \E target \in Positions :
          /\ At(Env, source) # None /\ At(Env, target) # None
          /\ At(Env, source)[1].owner_id = current_player
          /\ At(Env, source)[1].unit_type \in {ARCHER, SPEARMAN}
          /\ ~At(Env, source)[1].acted_this_turn
          /\ At(Env, target)[1].owner_id # current_player
          /\ At(Env, target)[1].unit_type # SHIELDMAN
          /\ source[2] = target[2] /\ abs(source[1] - target[1]) = 2
          /\ At(Env, <<(source[1] + target[1]) \div 2, source[2]>>) # None
          /\ ~Accepted(_encode_attack(source, target))
    /\ \E source \in Positions : \E target \in Positions :
          Accepted(_encode_attack(source, target))

\* the rotate from source to target is legal for the player to move
RotateLegal(source, target) ==
    /\ At(Env, source) # None
    /\ At(Env, target) # None
    /\ LET unit  == At(Env, source)[1]
           other == At(Env, target)[1]
           rows  == abs(source[1] - target[1])
           cols  == abs(source[2] - target[2])
           mid   == <<(source[1] + target[1]) \div 2, (source[2] + target[2]) \div 2>>
       IN  /\ unit.owner_id = current_player
           /\ ~unit.acted_this_turn
           /\ other.owner_id = current_player
           /\ other.unit_type # unit.unit_type
           /\ \/ rows + cols = 1
              \/ unit.unit_type = CAVALRY /\ rows = 1 /\ cols = 1
              \/ /\ unit.unit_type = CAVALRY
                 /\ (rows = 2 /\ cols = 0) \/ (rows = 0 /\ cols = 2)
                 /\ At(Env, mid) = None

\* C20 (rotate legality): in every reachable state, for every pair of cells,
\* step applies the rotate from source to target for the player to move iff
\* the source holds a unit of that player that has not acted, the target a
\* unit of the same player and of another type, and the cells are
\* orthogonally adjacent, or the initiating unit is Cavalry and the cells
\* are diagonally adjacent or 2 apart on a row or column with the cell
\* between empty; so a diagonal or long swap initiated by another unit is
\* turned down even when the unit at the target is Cavalry.
RotateLegality ==
    \A source \in Positions : \A target \in Positions :
        Accepted(_encode_rotate(source, target)) <=> RotateLegal(source, target)

\* a diagonal swap has just been turned down where a unit that is no Cavalry
\* and has not acted stands diagonally next to a Cavalry of its side: step
\* turns the swap down from its cell and would apply it from the Cavalry's
RotateLegalityWitness ==
    /\ Rejected
    /\ result.error = "Only cavalry can do diagonal swaps"
    /\ \E source \in Positions : \E target \in Positions :
          /\ At(Env, source) # None /\ At(Env, target) # None
          /\ At(Env, source)[1].owner_id = current_player
          /\ At(Env, target)[1].owner_id = current_player
          /\ At(Env, source)[1].unit_type # CAVALRY
          /\ At(Env, target)[1].unit_type = CAVALRY
          /\ ~At(Env, source)[1].acted_this_turn
          /\ abs(source[1] - target[1]) = 1 /\ abs(source[2] - target[2]) = 1
          /\ ~Accepted(_encode_rotate(source, target))
          /\ Accepted(_encode_rotate(target, source))

\* C21 (rotate effect): an applied rotate puts the initiating unit into the
\* target cell and the other unit into the source cell, each with its
\* position field set to its new cell, takes exactly 1 from the acting
\* player's actions_remaining, and leaves every other cell as it was; while
\* the turn goes on the initiating unit, and it alone, is marked as having
\* acted and the other unit keeps its flag (when the rotate spends the last
\* action the end of the turn clears the flags of all units).
RotateEffect ==
    [][(result'.call = "step" /\ result'.valid
          /\ result'.action_type = Some("ROTATE"))
        => LET source == _parse_action(result'.action[1]).params.source
               target == _parse_action(result'.action[1]).params.target
               unit   == At(Env, source)[1]
               other  == At(Env, target)[1]
               going  == current_player' = current_player
           IN  /\ At(Env', target) =
                     Some([unit EXCEPT !.position = target,
                                       !.acted_this_turn = going])
               /\ At(Env', source) =
                     Some([other EXCEPT !.position = source,
                                        !.acted_this_turn = IF going THEN @ ELSE FALSE])
               /\ players'[current_player].actions_remaining
                     = players[current_player].actions_remaining - 1
               /\ \A pos \in Positions \ {source, target} :
                     At(Env', pos) =
                        IF going \/ At(Env, pos) = None THEN At(Env, pos)
                        ELSE Some([At(Env, pos)[1] EXCEPT !.acted_this_turn = FALSE])]_vars

\* a rotate has been applied that left its player an action: the initiating
\* unit is marked, the unit swapped into the source cell is not, and step
\* would apply a move of that unit and a rotate it initiates
RotateEffectWitness ==
    /\ AppliedKind("ROTATE")
    /\ result.player_id = Some(current_player)
    /\ LET source == _parse_action(result.action[1]).params.source
           target == _parse_action(result.action[1]).params.target
       IN  /\ At(Env, target)[1].acted_this_turn
           /\ ~At(Env, source)[1].acted_this_turn
           /\ Accepted(_encode_rotate(source, target))
           /\ \E to \in Positions : Accepted(_encode_move(source, to))

\* the home cell of a player in a column
HomeCell(player_id, col) == <<IF player_id = 0 THEN 0 ELSE 4, col>>

\* the deploy of a unit of unit_type into column col is legal for the player
\* to move
DeployLegal(unit_type, col) ==
    /\ At(Env, HomeCell(current_player, col)) = None
    /\ players[current_player].deployments_remaining > 0
    /\ players[current_player].actions_remaining > 0
    /\ players[current_player].deployment_counts[unit_type] < 3

\* C22 (deploy): in every reachable state step applies a deploy index for the
\* player to move iff the cell of the column in that player's home row is
\* empty, the player has a deployment and an action left and has deployed
\* fewer than 3 units of the type; and an applied deploy puts one new unit of
\* the type and owner into that cell and changes no other cell, takes 1
\* from the player's deployments_remaining and actions_remaining, adds 1 to
\* the count of the type alone, and while the turn goes on step turns down
\* every move, attack and rotate from the new unit's cell.
Deploy ==
    /\ [](\A action \in 0 .. DEPLOY_ACTIONS - 1 :
            Accepted(action) <=> DeployLegal(_parse_action(action).params.unit_type,
                                             _parse_action(action).params.col))
    /\ [][(result'.call = "step" /\ result'.valid
            /\ result'.action_type = Some("DEPLOY"))
          => LET unit_type == _parse_action(result'.action[1]).params.unit_type
                 col       == _parse_action(result'.action[1]).params.col
                 player_id == current_player
                 home      == HomeCell(player_id, col)
                 going     == current_player' = current_player
             IN  /\ At(Env, home) = None
                 /\ At(Env', home) # None
                 /\ At(Env', home)[1].unit_type = unit_type
                 /\ At(Env', home)[1].owner_id = player_id
                 /\ At(Env', home)[1].position = home
                 /\ \A q \in Positions : At(Env, q) # None =>
                        At(Env', home)[1].id # At(Env, q)[1].id
                 /\ \A pos \in Positions \ {home} :
                       At(Env', pos) =
                          IF going \/ At(Env, pos) = None THEN At(Env, pos)
                          ELSE Some([At(Env, pos)[1] EXCEPT !.acted_this_turn = FALSE])
                 /\ players'[player_id].deployments_remaining
                       = players[player_id].deployments_remaining - 1
                 /\ players'[player_id].actions_remaining
                       = players[player_id].actions_remaining - 1
                 /\ players'[player_id].deployment_counts =
                       [players[player_id].deployment_counts
                           EXCEPT ![unit_type] = @ + 1]
                 /\ going => \A to \in Positions :
                       /\ ~step(Env', _encode_move(home, to), player_id).valid
                       /\ ~step(Env', _encode_attack(home, to), player_id).valid
                       /\ ~step(Env', _encode_rotate(home, to), player_id).valid]_vars

\* a third deploy of a type has been applied and left its player an action
\* and empty home cells: step turns down the moves of the new unit and a
\* further deploy of the type, and would apply the deploy of another type
DeployWitness ==
    /\ AppliedKind("DEPLOY")
    /\ result.player_id = Some(current_player)
    /\ LET unit_type == _parse_action(result.action[1]).params.unit_type
           col       == _parse_action(result.action[1]).params.col
       IN  /\ players[current_player].deployment_counts[unit_type] = 3
           /\ At(Env, HomeCell(current_player, col))[1].acted_this_turn
           /\ \E c \in Cols :
                 /\ At(Env, HomeCell(current_player, c)) = None
                 /\ ~Accepted((unit_type - 1) * 25 + c)
                 /\ \E t \in 1 .. 6 : Accepted((t - 1) * 25 + c)

\* the move from source to target is legal for the player to move
MoveLegal(source, target) ==
    /\ At(Env, source) # None
    /\ At(Env, source)[1].owner_id = current_player
    /\ ~At(Env, source)[1].acted_this_turn
    /\ target # source
    /\ At(Env, target) = None
    /\ RuleDistance(source, target)
          <= (IF At(Env, source)[1].unit_type = CAVALRY THEN 2 ELSE 1)

\* C23 (move): in every reachable state, for every pair of cells, step
\* applies the move from source to target for the player to move iff the
\* source holds a unit of that player that has not acted, the target is
\* another cell and empty, and the distance (2 for a diagonal step) is at
\* most 2 for Cavalry and 1 for the other types, whatever stands between;
\* and an applied move leaves the unit in the target cell with its position
\* set, the source cell empty and every other cell as it was, takes 1 from
\* the player's actions_remaining, and marks the unit as having acted (a
\* mark the end of the turn clears with all others).
Move ==
    /\ [](\A source \in Positions : \A target \in Positions :
            Accepted(_encode_move(source, target)) <=> MoveLegal(source, target))
    /\ [][(result'.call = "step" /\ result'.valid
            /\ result'.action_type = Some("MOVE"))
          => LET source == _parse_action(result'.action[1]).params.source
                 target == _parse_action(result'.action[1]).params.target
                 unit   == At(Env, source)[1]
                 going  == current_player' = current_player
             IN  /\ At(Env', target) =
                       Some([unit EXCEPT !.position = target,
                                         !.acted_this_turn = going])
                 /\ At(Env', source) = None
                 /\ players'[current_player].actions_remaining
                       = players[current_player].actions_remaining - 1
                 /\ \A pos \in Positions \ {source, target} :
                       At(Env', pos) =
                          IF going \/ At(Env, pos) = None THEN At(Env, pos)
                          ELSE Some([At(Env, pos)[1] EXCEPT !.acted_this_turn = FALSE])]_vars

\* a Cavalry has just moved 2 cells along a row or column over an occupied
\* cell, in a turn that goes on: it is marked as having acted
MoveWitness ==
    /\ AppliedKind("MOVE")
    /\ result.player_id = Some(current_player)
    /\ LET source == _parse_action(result.action[1]).params.source
           target == _parse_action(result.action[1]).params.target
       IN  /\ abs(source[1] - target[1]) + abs(source[2] - target[2]) = 2
           /\ source[1] = target[1] \/ source[2] = target[2]
           /\ At(Env, <<(source[1] + target[1]) \div 2,
                        (source[2] + target[2]) \div 2>>) # None
           /\ At(Env, target)[1].unit_type = CAVALRY
           /\ At(Env, target)[1].acted_this_turn

\* the outer control points the player holds in the environment e
OuterHeld(e, player_id) ==
    Cardinality({i \in DOMAIN OUTSIDE_POINTS :
                    At(e, OUTSIDE_POINTS[i]) # None
                    /\ At(e, OUTSIDE_POINTS[i])[1].owner_id = player_id})

\* the board with the flag of every unit cleared
Unflagged(g) ==
    [r \in Rows |-> [c \in Cols |->
        IF g[r][c] = None THEN None
        ELSE Some([g[r][c][1] EXCEPT !.acted_this_turn = FALSE])]]

\* after is what the end of a turn makes of before
EndTurnEffect(before, after) ==
    LET incoming == 1 - before.current_player
    IN  /\ after.current_player = incoming
        /\ after.grid = Unflagged(before.grid)
        /\ after.turn_number = before.turn_number + 1
        /\ after.turns_since_last_capture = before.turns_since_last_capture + 1
        /\ after.turns_since_last_unit_death = before.turns_since_last_unit_death + 1
        /\ after.players[incoming].deployments_remaining =
              before.players[incoming].deployments_remaining
                + (IF OuterHeld(before, incoming) = 2 THEN 1 ELSE 0)
        /\ after.free_deployments_remaining =
              (IF OuterHeld(before, incoming) >= 1 THEN 1 ELSE 0)

\* C24 (end-turn transition): the end of a turn switches the player to move,
\* clears the flag of every unit and moves or removes none, adds 1 to the
\* turn number and to both no-progress counters, gives the incoming player a
\* deployment iff it holds both outer control points, and sets
\* free_deployments_remaining to 1 iff it holds at least one.  It is what
\* END_TURN does in every reachable state, and what every step that passes
\* the turn on does after its action (step then sets to 0 the counter whose
\* progress the action made).  The player to move and the turn number
\* change in no other step but reset, so player 0 moves in the odd turns and
\* player 1 in the even ones.
EndTurnTransition ==
    /\ [](EndTurnEffect(Env, _end_turn(Env)))
    /\ [](current_player = (turn_number - 1) % 2)
    /\ [][result'.call = "step" =>
            IF current_player' # current_player
            THEN /\ current_player' = 1 - current_player
                 /\ turn_number' = turn_number + 1
                 /\ grid' = Unflagged(grid')
                 /\ result'.action_type = Some("END_TURN") => grid' = Unflagged(grid)
                 /\ turns_since_last_capture' =
                       IF \E i \in DOMAIN CONTROL_POINTS :
                             _get_control_owner(Env', CONTROL_POINTS[i])
                                # _get_control_owner(Env, CONTROL_POINTS[i])
                       THEN 0 ELSE turns_since_last_capture + 1
                 /\ turns_since_last_unit_death' =
                       IF _count_units(Env', 0) + _count_units(Env', 1)
                             < _count_units(Env, 0) + _count_units(Env, 1)
                       THEN 0 ELSE turns_since_last_unit_death + 1
                 /\ players'[current_player'].deployments_remaining =
                       players[current_player'].deployments_remaining
                         + (IF OuterHeld(Env', current_player') = 2 THEN 1 ELSE 0)
                 /\ free_deployments_remaining' =
                       (IF OuterHeld(Env', current_player') >= 1 THEN 1 ELSE 0)
            ELSE turn_number' = turn_number]_vars

\* a step has passed the turn to a player that holds both outer control
\* points and has been given a deployment for it
EndTurnTransitionWitness ==
    /\ Applied
    /\ result.player_id = Some(1 - current_player)
    /\ OuterHeld(Env, current_player) = 2
    /\ free_deployments_remaining = 1
    /\ turn_number > 5
    /\ turns_since_last_capture > 0

\* C25 (END_TURN): the last index of the action space is accepted from the
\* player to move in every reachable state, and the step it makes is the
\* end of the turn and nothing more: no unit is moved or removed, the
\* outgoing player keeps its deployments_remaining, both players keep their
\* deployment_counts, the incoming player's deployments_remaining grows only
\* by the deployment for both outer control points, and the outgoing player's
\* actions_remaining is left as it was.
EndTurnAction ==
    /\ [](/\ Accepted(ACTION_SPACE_SIZE - 1)
          /\ (ACTION_SPACE_SIZE - 1) \in CurrentMask
          /\ _parse_action(ACTION_SPACE_SIZE - 1).action_type = "END_TURN")
    /\ [][AppliedKind("END_TURN")' =>
            /\ EndTurnEffect(Env, Env')
            /\ players'[current_player].deployments_remaining
                  = players[current_player].deployments_remaining
            /\ players'[current_player].actions_remaining
                  = players[current_player].actions_remaining
            /\ \A p \in {0, 1} :
                  players'[p].deployment_counts = players[p].deployment_counts
            /\ _unit_counter' = _unit_counter]_vars

\* END_TURN has been applied for a player that had two actions left and a
\* unit on the board, and the player now to move holds no outer point
EndTurnActionWitness ==
    /\ AppliedKind("END_TURN")
    /\ players[1 - current_player].actions_remaining = 2
    /\ _count_units(Env, 1 - current_player) > 0
    /\ OuterHeld(Env, current_player) = 0
    /\ free_deployments_remaining = 0

\* C26 (index range): an index outside [0, ACTION_SPACE_SIZE) given to step
\* raises and is never applied: every applied index is one of the action
\* space, so no index from ACTION_SPACE_SIZE on ends a turn and no index
\* below 0 deploys a unit.
IndexRange ==
    Applied => result.action[1] \in 0..(ACTION_SPACE_SIZE - 1)

\* e with the two players exchanged: every unit belongs to the other player,
\* each player has the other's resources, the other player is to move
Swapped(e) ==
    [e EXCEPT
        !.grid = [r \in Rows |-> [c \in Cols |->
                    IF e.grid[r][c] = None THEN None
                    ELSE Some([e.grid[r][c][1] EXCEPT
                                 !.owner_id = 1 - @,
                                 !.id = <<1 - @[1], @[2], @[3]>>])]],
        !.players = [p \in {0, 1} |-> [e.players[1 - p] EXCEPT !.id = p]],
        !.current_player = 1 - @]

\* C27 (observation symmetry): in every reachable state the observation of
\* a player is the observation of the other player in the state with the
\* two players exchanged (owners of the units, resources, player to move):
\* the observation tells self from enemy and never player 0 from player 1.
ObservationSymmetry ==
    \A player_id \in {0, 1} :
        _get_observation(Env, player_id)
            = _get_observation(Swapped(Env), 1 - player_id)

\* both players have units, one of them has acted, one player holds more
\* control points and has fewer deployments left than the other, and the two
\* players see different observations, which the exchange turns into one
\* another
ObservationSymmetryWitness ==
    /\ _count_units(Env, 0) > 0 /\ _count_units(Env, 1) > 0
    /\ \E pos \in Positions : At(Env, pos) # None /\ At(Env, pos)[1].acted_this_turn
    /\ _count_control_points(Env, 0) # _count_control_points(Env, 1)
    /\ players[0].deployments_remaining # players[1].deployments_remaining
    /\ _get_observation(Env, 0) # _get_observation(Env, 1)
    /\ _get_observation(Swapped(Env), 0) # _get_observation(Env, 0)
    /\ _get_observation(Swapped(Env), 0) = _get_observation(Env, 1)

\* e is the state a game starts in
InitialState(e) ==
    /\ \A pos \in Positions : At(e, pos) = None
    /\ e.current_player = 0
    /\ e.turn_number = 1
    /\ e.players[0].actions_remaining = 1
    /\ e.players[1].actions_remaining = 0
    /\ \A p \in {0, 1} :
          /\ e.players[p].deployments_remaining = 10
          /\ DOMAIN e.players[p].deployment_counts = SWORDSMAN..SPEARMAN
          /\ \A t \in SWORDSMAN..SPEARMAN : e.players[p].deployment_counts[t] = 0
    /\ e.free_deployments_remaining = 0
    /\ e._unit_counter = 0
    /\ e.turns_since_last_capture = 0
    /\ e.turns_since_last_unit_death = 0
    /\ e.state_hash_counts = << >>
    /\ e.game_outcome = "IN_PROGRESS"
    /\ e.draw_reason = "NONE"

\* C28 (reset): reset() in any reachable state, a game under way or a
\* finished one, gives the state a game starts in: empty board, player 0 to
\* move in turn 1 with 1 action and player 1 with none, 10 deployments and
\* no deployed type for both, both no-progress counters 0, no state counted,
\* outcome IN_PROGRESS and draw reason NONE.
ResetYieldsInitial ==
    /\ [](InitialState(reset(Env)))
    /\ [][result'.call = "reset" => InitialState(Env')]_vars

\* a game has ended in a draw with a state counted more than once, both
\* counters above 0 and units of both players on the board
ResetYieldsInitialWitness ==
    /\ game_outcome = "DRAW" /\ draw_reason # "NONE"
    /\ \E h \in DOMAIN state_hash_counts : state_hash_counts[h] > 1
    /\ turns_since_last_capture > 0 /\ turns_since_last_unit_death > 0
    /\ _count_units(Env, 0) > 0 /\ _count_units(Env, 1) > 0
    /\ ~InitialState(Env)

\* C29 (terminal reward): the step that ends the game returns, in place of
\* the shaping reward, the win reward when the caller is the winner and the
\* lose reward when the other player is; when the game is drawn it returns,
\* in training mode, the reward of the draw reason (no progress, repetition,
\* max turns) and, outside training mode, draw_default whatever the reason.
TerminalReward ==
    (result.call = "step" /\ result.done) =>
        result.reward =
            IF result.winner # None
            THEN IF result.winner = result.player_id
                 THEN rewards.win ELSE rewards.lose
            ELSE IF ~training_mode THEN rewards.draw_default
            ELSE IF draw_reason = "NO_PROGRESS" THEN rewards.draw_no_progress
            ELSE IF draw_reason = "REPEATED_STATE" THEN rewards.draw_repetition
            ELSE IF draw_reason = "MAX_TURNS" THEN rewards.draw_max_turns
            ELSE rewards.draw_default

\* outside training mode a step has ended the game by the max-turn draw and
\* returned draw_default, which is neither the max-turn reward nor the
\* shaping reward of the step
TerminalRewardWitness ==
    /\ Applied /\ result.done /\ result.winner = None
    /\ ~training_mode
    /\ draw_reason = "MAX_TURNS"
    /\ result.reward = rewards.draw_default
    /\ rewards.draw_default # rewards.draw_max_turns
    /\ rewards.draw_default # rewards.turn_penalty

\* the indices of a kind of action
KindRange(kind) ==
    IF kind = "DEPLOY" THEN 0..(DEPLOY_ACTIONS - 1)
    ELSE IF kind = "MOVE" THEN DEPLOY_ACTIONS..(DEPLOY_ACTIONS + MOVE_ACTIONS - 1)
    ELSE IF kind = "ATTACK"
    THEN (DEPLOY_ACTIONS + MOVE_ACTIONS)
            ..(DEPLOY_ACTIONS + MOVE_ACTIONS + ATTACK_ACTIONS - 1)
    ELSE IF kind = "ROTATE"
    THEN (DEPLOY_ACTIONS + MOVE_ACTIONS + ATTACK_ACTIONS)..(ACTION_SPACE_SIZE - 2)
    ELSE {ACTION_SPACE_SIZE - 1}

\* C30 (codec round trip): decoding the index the encoder gives for a
\* structured action (deploy of a type 1..6 at a column, move, attack or
\* rotate between two cells of the grid, END_TURN) gives the action back,
\* kind and parameters, and the index lies in the range of its kind: deploy
\* [0,150), move [150,775), attack [775,1400), rotate [1400,2025), END_TURN
\* 2025.
EncodeDecode ==
    /\ result.call \in {"encode", "decode"} =>
          result.action[1] \in KindRange(result.structured.action_type)
    /\ result.call = "decode" => result.decoded = result.structured
    /\ KindRange("DEPLOY") = 0..149 /\ KindRange("MOVE") = 150..774
    /\ KindRange("ATTACK") = 775..1399 /\ KindRange("ROTATE") = 1400..2024
    /\ KindRange("END_TURN") = {2025}

\* a rotate from a cell off the diagonal to another has been encoded and
\* decoded
EncodeDecodeWitness ==
    /\ result.call = "decode"
    /\ result.structured.action_type = "ROTATE"
    /\ result.structured.params.source = <<1, 3>>
    /\ result.structured.params.target = <<2, 3>>
    /\ result.action = Some(1400 + (1 * 5 + 3) * 25 + (2 * 5 + 3))
    /\ result.decoded.params.source = <<1, 3>>

\* the units on the board of e
UnitsOf(e) == {At(e, pos)[1] : pos \in {q \in Positions : At(e, q) # None}}

\* C31 (once per turn): the unit that initiates an applied move, attack or
\* rotate has not acted in the turn; while the turn goes on, every unit that
\* has acted stays marked, the initiator of the applied action (if it is
\* still on the board) and a unit just deployed are marked; and after every
\* step that passes the turn on no unit on the board is marked.  So between
\* two ends of turn a unit initiates at most one move, attack or rotate, and
\* a unit deployed in the turn none.
OncePerTurn ==
    [][result'.call = "step" =>
        LET going  == current_player' = current_player
            acts   == /\ result'.valid
                      /\ result'.action_type \in
                            {Some("MOVE"), Some("ATTACK"), Some("ROTATE")}
            source == _parse_action(result'.action[1]).params.source
        IN  /\ acts => /\ At(Env, source) # None
                       /\ ~At(Env, source)[1].acted_this_turn
                       /\ At(Env, source)[1].owner_id = current_player
            /\ (acts /\ going) =>
                  \A u \in UnitsOf(Env') :
                      u.id = At(Env, source)[1].id => u.acted_this_turn
            /\ (result'.valid /\ result'.action_type = Some("DEPLOY") /\ going) =>
                  \A u \in UnitsOf(Env') :
                      (\A v \in UnitsOf(Env) : v.id # u.id) => u.acted_this_turn
            /\ going =>
                  \A u \in UnitsOf(Env), v \in UnitsOf(Env') :
                      (u.id = v.id /\ u.acted_this_turn) => v.acted_this_turn
            /\ ~going => \A v \in UnitsOf(Env') : ~v.acted_this_turn]_vars

\* in a turn that goes on after it, a unit has moved and stands marked, and
\* its second move, attack and rotate are all turned down, the move back for
\* the mark alone
OncePerTurnWitness ==
    /\ AppliedKind("MOVE")
    /\ result.player_id = Some(current_player)
    /\ players[current_player].actions_remaining > 0
    /\ LET target == _parse_action(result.action[1]).params.target
       IN  /\ At(Env, target) # None /\ At(Env, target)[1].acted_this_turn
           /\ \A pos \in Positions :
                 /\ ~Accepted(_encode_move(target, pos))
                 /\ ~Accepted(_encode_attack(target, pos))
                 /\ ~Accepted(_encode_rotate(target, pos))
           /\ step(Env, _encode_move(target, <<target[1] - 1, target[2]>>),
                   current_player).error = "Unit already acted"

\* C32 (inference observation): for the state of the engine and either
\* player, state_to_observation of the description of the state is, element
\* for element, the vector _get_observation returns.
InferenceObservation ==
    \A player_id \in Players :
        state_to_observation(Description(Env), player_id)
            = ObservationVector(_get_observation(Env, player_id))

\* C33 (I/O constants): OBS_DIM is the engine's observation_size and
\* ACTION_DIM its action_size, so every index the engine applies is one the
\* inference side can emit.
IOConstants ==
    /\ OBS_DIM = observation_size
    /\ ACTION_DIM = action_size
    /\ Applied => result.action[1] \in 0 .. (ACTION_DIM - 1)

\* C34 (actions of the player to move): after reset() and after every call
\* of step that returns, applied or turned down, the player to move has 1 or
\* 2 actions left, never 0.
ActionsToMove ==
    players[current_player].actions_remaining \in {1, 2}

\* a deploy has left its player, which came into the turn with 2 actions for
\* the centre control point, with 1, and the deploy it submits next is not
\* turned down for want of actions
ActionsToMoveWitness ==
    /\ AppliedKind("DEPLOY")
    /\ result.player_id = Some(current_player)
    /\ _controls_position(Env, current_player, CONTROL_POINTS[2])
    /\ players[current_player].actions_remaining = 1
    /\ \E c \in Cols : Accepted(_encode_deploy(CAVALRY, c))

\* C35 (board consistency): in every reachable state the position of every
\* unit is the cell that holds it and no unit is held by two cells, after
\* every deploy, move, attack and rotate.
BoardConsistency ==
    /\ \A pos \in Positions :
          At(Env, pos) # None => At(Env, pos)[1].position = pos
    /\ \A pos \in Positions, other \in Positions :
          (pos # other /\ At(Env, pos) # None /\ At(Env, other) # None)
              => At(Env, pos)[1].id # At(Env, other)[1].id

\* a rotate has exchanged two units, of which one had been moved before, and
\* a unit of the other player stands on the board
BoardConsistencyWitness ==
    /\ AppliedKind("ROTATE")
    /\ LET parsed == _parse_action(result.action[1])
       IN  /\ At(Env, parsed.params.source) # None
           /\ At(Env, parsed.params.target) # None
           /\ At(Env, parsed.params.source)[1].id # At(Env, parsed.params.target)[1].id
           /\ parsed.params.source[1] > 0 \/ parsed.params.target[1] > 0
    /\ _count_units(Env, 1) > 0

\* sum(d.values())
RECURSIVE SumOver(_, _)
SumOver(d, keys) ==
    IF keys = {} THEN 0
    ELSE LET k == CHOOSE x \in keys : TRUE
         IN  d[k] + SumOver(d, keys \ {k})

\* the deployments a player of e has left and has made
DeploymentTotal(e, player_id) ==
    e.players[player_id].deployments_remaining
        + SumOver(e.players[player_id].deployment_counts,
                  DOMAIN e.players[player_id].deployment_counts)

\* C36 (deployment conservation): deployments_remaining is never negative;
\* the deployments a player has left and has made are 10 after reset(), grow
\* by 1 in every step by which the player comes to move while it holds both
\* outer control points, and change in no other step, so that they are 10
\* plus the number of such ends of turn since reset(); and a player never
\* has more units on the board than it has made deployments.
DeploymentConservation ==
    /\ [](\A p \in Players :
            /\ players[p].deployments_remaining >= 0
            /\ _count_units(Env, p)
                  <= SumOver(players[p].deployment_counts,
                             DOMAIN players[p].deployment_counts))
    /\ [](result.call = "reset" => \A p \in Players : DeploymentTotal(Env, p) = 10)
    /\ [][result'.call = "step" =>
            \A p \in Players :
                DeploymentTotal(Env', p) =
                    DeploymentTotal(Env, p)
                      + (IF current_player # p /\ current_player' = p
                            /\ OuterHeld(Env', p) = 2
                         THEN 1 ELSE 0)]_vars

\* player 0 has made three deployments and has come to move with both outer
\* control points in its hands: it has 8 deployments left
DeploymentConservationWitness ==
    /\ Applied
    /\ result.player_id = Some(1) /\ current_player = 0
    /\ OuterHeld(Env, 0) = 2
    /\ DeploymentTotal(Env, 0) = 11
    /\ players[0].deployments_remaining = 8
    /\ DeploymentTotal(Env, 1) = 10

\* the tuple (observation, reward, done, info) that step(action, player_id)
\* returns on the environment e: info is {"error": ...} when the call is
\* turned down and the dictionary step builds at its end otherwise
Returned(e, action, player_id) ==
    LET r == step(e, action, player_id)
    IN  [observation |-> _get_observation(r.env, player_id),
         reward |-> r.reward,
         done |-> r.done,
         info |-> IF ~r.valid THEN [error |-> r.error]
                  ELSE [winner |-> r.winner,
                        turn_number |-> r.env.turn_number,
                        current_player |-> r.env.current_player,
                        game_outcome |-> r.env.game_outcome,
                        is_draw |-> r.env.game_outcome = "DRAW",
                        draw_reason |-> IF r.env.draw_reason # "NONE"
                                        THEN Some(r.env.draw_reason) ELSE None,
                        draw_reward |-> IF r.env.game_outcome = "DRAW"
                                        THEN Some(r.reward) ELSE None,
                        training_mode |-> r.env.training_mode,
                        turns_since_capture |-> r.env.turns_since_last_capture,
                        turns_since_death |-> r.env.turns_since_last_unit_death]]

\* what the calls of a sequence return, one after the other, on e
RECURSIVE Returns(_, _)
Returns(e, calls) ==
    IF calls = << >> THEN << >>
    ELSE <<Returned(e, Head(calls)[1], Head(calls)[2])>>
            \o Returns(step(e, Head(calls)[1], Head(calls)[2]).env, Tail(calls))

\* the sequences of two calls made on an engine and on its clone
CloneCalls ==
    LET Calls == {<<ACTION_SPACE_SIZE - 1, 0>>, <<ACTION_SPACE_SIZE - 1, 1>>,
                  <<_encode_deploy(CAVALRY, 2), 0>>}
    IN  {<<a, b>> : a \in Calls, b \in Calls}

\* C37 (clone equivalence): in every reachable state, training mode set or
\* not, the clone of the engine returns for every sequence of calls, call by
\* call, the observations, rewards, done flags and info that the engine
\* returns for it.
CloneEquivalence ==
    \A calls \in CloneCalls :
        Returns(clone(Env).env, calls) = Returns(Env, calls)

\* the channels of the unit-type block and of the ownership block (empty,
\* self, enemy) of a cell
TypeBlock == 0 .. 5

OwnerBlock == 6 .. 8

\* C38 (channel layout): in the observation of either player, every cell
\* that holds a unit has exactly one channel of the unit-type block set,
\* cells with units of different types have different ones, every cell has
\* exactly one channel of the ownership block set, and the empty channel of
\* that block is set iff the cell holds no unit.
ChannelLayout ==
    \A player_id \in Players :
        LET spatial == _get_observation(Env, player_id).spatial
        IN  /\ \A pos \in Positions :
                  /\ At(Env, pos) # None =>
                        Cardinality(spatial[pos] \cap TypeBlock) = 1
                  /\ Cardinality(spatial[pos] \cap OwnerBlock) = 1
                  /\ (6 \in spatial[pos]) <=> (At(Env, pos) = None)
            /\ \A pos \in Positions, other \in Positions :
                  (At(Env, pos) # None /\ At(Env, other) # None
                     /\ At(Env, pos)[1].unit_type # At(Env, other)[1].unit_type)
                  => spatial[pos] \cap TypeBlock # spatial[other] \cap TypeBlock

-----------------------------------------------------------------------------
(* MultiAgentEnv: attacks the mask enables *)

\* the attacks of the action space, as step decodes them
AttackIndices == action_attack_start .. action_attack_end

AttackSource(action) == source_of((action - action_attack_start) \div 16)

AttackDistance(action) == (((action - action_attack_start) % 16) % 2) + 1

AttackTarget(action) ==
    Along(AttackSource(action),
          directions_8[(((action - action_attack_start) % 16) \div 2) + 1],
          AttackDistance(action))

\* the mask enables an attack only from a unit of the player to move that
\* has not acted, onto an enemy unit it beats at the range level of the
\* index
MaskedAttacksBeat ==
    \A action \in _compute_action_mask(multi) \cap AttackIndices :
        /\ AttackSource(action) \in Ready(multi)
        /\ AttackTarget(action) \in MultiPositions
        /\ multi.grid[AttackTarget(action)] # None
        /\ multi.grid[AttackTarget(action)][1].owner # multi.current_player
        /\ MultiAgentEnv_can_attack(multi.grid[AttackSource(action)][1],
                                    multi.grid[AttackTarget(action)][1],
                                    AttackDistance(action))

\* C39: MultiAgentEnv enables an attack in the mask only if the attacker
\* can defeat the defender, and every attack step executes, in any of the
\* eight directions and at either range level, leaves the defender's cell
\* empty.
MaskedAttackDefeats ==
    /\ []MaskedAttacksBeat
    /\ [][(result'.call = "MultiAgentEnv.step" /\ result'.action_type = "attack")
            => multi'.grid[AttackTarget(result'.action)] = None]_vars

-----------------------------------------------------------------------------
(* MultiAgentEnv: deployments and the ways a game ends *)

\* the game was ended by the control-point branch of _check_game_end
EndedBySweep == \E p \in {0, 1} : ControlsAll(multi, p) /\ multi.winner = Some(p)

\* the game was ended by the turn-limit branch of _check_game_end
EndedByTurnLimit ==
    /\ multi.turn_number >= multi.max_turns
    /\ multi.winner = None
    /\ multi.draw_reason = Some("turn_limit")

\* C40: no action of MultiAgentEnv changes a player's
\* deployments_remaining, which is 10 for both players in every reachable
\* state; so neither the elimination condition nor the low-resources
\* condition of _check_game_end ever holds, and a game that is done was
\* ended by a control-point sweep or by the turn limit.
DeploymentsUnspent ==
    /\ [](\A p \in {0, 1} : multi.players[p].deployments_remaining = 10)
    /\ [][\A p \in {0, 1} :
            multi'.players[p].deployments_remaining
                = multi.players[p].deployments_remaining]_vars
    /\ [](/\ \A p \in {0, 1} : ~NothingLeft(multi, p)
          /\ ~(total_resources(multi, 0) < 3 /\ total_resources(multi, 1) < 3)
          /\ multi.draw_reason # Some("low_resources"))
    /\ [](multi.done => (EndedBySweep \/ EndedByTurnLimit))

\* player 0 has deployed both cavalry and a swordsman, has swept the three
\* control points, and still has its 10 deployments
DeploymentsUnspentWitness ==
    /\ multi.done
    /\ multi.winner = Some(0)
    /\ ControlsAll(multi, 0)
    /\ multi.players[0].deployment_counts["cavalry"] = 2
    /\ multi.players[0].deployment_counts["swordsman"] >= 1
    /\ multi.players[0].deployments_remaining = 10

====
